---- MODULE Spec2Model ----
(***************************************************************************)
(* CounterTrak GSI ingest pipeline: MatchManager.route_payload,            *)
(* MatchProcessor.handle_payload with its spawned tasks, the               *)
(* PayloadExtractor and the persistence layer (gsi/django_integration.py). *)
(*                                                                         *)
(* Scheduling model (asyncio): one coroutine runs at a time and gives up   *)
(* the event loop only where it awaits a persistence call.  Every          *)
(* persistence call is a @sync_to_async wrapper: it is queued on the       *)
(* single worker thread, executed there in submission order, and then the  *)
(* awaiting coroutine is resumed.  `running` is the coroutine that owns    *)
(* the loop (0: the loop is idle), `dbq` the coroutines waiting for their  *)
(* persistence call in submission order, `ready` the tasks made by         *)
(* asyncio.create_task that have not started yet.  The step that resumes   *)
(* a coroutine takes the result of the persistence call named by its pc.   *)
(***************************************************************************)
EXTENDS Integers, Sequences, FiniteSets, TLC

\* ---- bounds of the model ----
MaxSnapshots == 3      \* snapshots received in one behaviour
MaxInFlight == 2       \* request handlers in progress at the same time
MaxRound == 2          \* stored round numbers are 1..MaxRound (wire 0..MaxRound-1)
MaxTime == 3           \* seconds the server clock advances besides one idle period
MaxOverlaps == 1       \* requests that arrive while another handler is in progress
MaxFaults == 1         \* UPDATE statements of update_match the store fails

\* ---- program constants ----
InactivityTimeout == 600

\* a pause of the client that is longer than the inactivity timeout
IdlePeriod == InactivityTimeout + 1

None == "none"
NoTs == 0 - 1

Owner == "A"                         \* provider.steamid of the game client
Spectated == "B"                     \* a player the client may spectate
KnownWeapons == {"weapon_ak47"}      \* rows of stats_weapon (preloaded)

VARIABLES
    now,               \* server clock (timezone.now() / time.time())
    accounts,          \* accounts_steamaccount: registered steam ids
    alphabet,          \* payload shapes the game client sends in this run
    ticks,             \* clock advances possible between two snapshots
    matches,           \* matches_match rows
    rounds,            \* matches_round rows
    prs,               \* stats_playerroundstate rows
    pw,                \* stats_playerweapon rows
    pms,               \* stats_playermatchstat rows
    match_processors,  \* MatchManager.match_processors (ids of processors in the map)
    procs,             \* every MatchProcessor ever constructed, by full match id
    heap,              \* RoundState objects (shared by reference)
    tasks,             \* live coroutines
    ready,             \* tasks created by asyncio.create_task, not started
    dbq,               \* coroutines suspended in a persistence call, FIFO
    running,           \* coroutine that owns the event loop, 0 if none
    received,          \* number of snapshots received so far
    overlapped,        \* number of them that arrived while a handler was in progress
    log,               \* observation log (history of what was received / issued)
    token_cache,       \* GSIServer.token_cache: tokens, last_refresh, initialized, lock
    auth_tokens,       \* accounts_steamaccount.auth_token -> steam_id
    server,            \* position of main() and of _periodic_cache_refresh
    server_log,        \* records written by the server's logger
    lock               \* MatchManager.lock: the coroutine that holds it

vars == <<now, accounts, alphabet, ticks, matches, rounds, prs, pw, pms, match_processors,
          procs, heap, tasks, ready, dbq, running, received, overlapped, log,
          token_cache, auth_tokens, server, server_log, lock>>

store == <<matches, rounds, prs, pw, pms>>

arrivals == <<received, overlapped>>

client == <<alphabet, ticks>>

startup == <<token_cache, auth_tokens, server, server_log>>

manager == <<match_processors, lock>>

\* ------------------------------------------------------------------------
\* Payloads
\* ------------------------------------------------------------------------
Teams == {"CT", "T"}

\* a GSI payload after JSON decoding; wround is the wire (0-indexed) map.round
Payload(activity, hasMap, mphase, wround, ct, t, rphase, win, bomb, player, weapons) ==
    [activity |-> activity, hasMap |-> hasMap, mphase |-> mphase, wround |-> wround,
     ct |-> ct, t |-> t, rphase |-> rphase, win |-> win, bomb |-> bomb,
     player |-> player, weapons |-> weapons]

\* in-game payloads of the owner's client
Playing(mphase, wround, ct, t, rphase, win, bomb, player, weapons) ==
    Payload("playing", TRUE, mphase, wround, ct, t, rphase, win, bomb, player, weapons)

WarmupPayloads ==
    { Playing("warmup", 0, 0, 0, "live", None, None, Owner, <<"weapon_ak47">>) }

\* activity 'menu': the main menu (no map section), and a menu opened while
\* the client is connected to a server (the map section is still sent)
MenuPayloads ==
    { Payload("menu", FALSE, None, 0, 0, 0, None, None, None, Owner, <<>>),
      Payload("menu", TRUE, "live", 0, 0, 0, "live", None, None, Owner, <<>>) }

\* ---- the snapshots the sessions below are made of ----
Live1 == Playing("live", 0, 0, 0, "live", None, None, Owner, <<"weapon_ak47">>)
Over1 == Playing("live", 0, 1, 0, "over", "CT", "defused", Owner, <<"weapon_ak47">>)
Over1NoWinner == Playing("live", 0, 0, 0, "over", None, None, Owner, <<>>)
Live2 == Playing("live", 1, 1, 0, "live", None, None, Owner, <<"weapon_ak47">>)
Freeze2 == Playing("live", 1, 1, 0, "freezetime", None, None, Owner, <<>>)
Over2 == Playing("live", 1, 1, 1, "over", "T", None, Owner, <<>>)
GameOver2 == Playing("gameover", 1, 1, 1, "over", "T", None, Owner, <<>>)
SpectatedOver1 == Playing("live", 0, 1, 0, "over", "CT", "defused", Spectated, <<"weapon_ak47">>)
SpectatedLive2 == Playing("live", 1, 1, 0, "live", None, None, Spectated, <<"weapon_ak47">>)
\* a snapshot whose player section carries no steamid
NoSteamId == Playing("live", 0, 0, 0, "live", None, None, None, <<>>)
SpectatedGameOver2 == Playing("gameover", 1, 1, 1, "over", "T", None, Spectated, <<"weapon_ak47">>)

\* A session: the snapshot shapes the game client sends, how far the server
\* clock moves between two of them, and the registered accounts.
Session(payloads, dts, registered) ==
    [payloads |-> payloads, ticks |-> dts, accounts |-> registered]

\* the end of a match replayed: live and gameover snapshots of one match
Rematch == Session({Live2, GameOver2}, {1}, {Owner})

\* a run of the Rematch session is followed one request, one handler in
\* progress and one overlapping arrival further than the others
Deeper == IF alphabet = Rematch.payloads THEN 1 ELSE 0

Sessions ==
    { Session({Live1, Over1, Freeze2, Live2, Over2}, {1}, {Owner}),
      Session({Live1, Over1NoWinner, Live2, GameOver2}, {1}, {Owner}),
      Session({Live1, Live2, GameOver2}, {1}, {}),
      Session({Live1, SpectatedOver1, SpectatedLive2, SpectatedGameOver2}, {1},
              {Owner, Spectated}),
      Session(MenuPayloads \cup WarmupPayloads \cup {Live1, NoSteamId}, {1}, {Owner}),
      Session({Live1, Live2}, {0, 1}, {Owner}),
      Session({Live1, Live2}, {1, IdlePeriod}, {Owner}) }

\* ------------------------------------------------------------------------
\* gsi/utils.py, MatchManager helpers
\* ------------------------------------------------------------------------
\* extract_base_match_id: None unless both 'map' and 'provider' are present.
\* Map name and mode are fixed in this model, so the base id is the provider.
extract_base_match_id(payload) ==
    IF ~payload.hasMap THEN None ELSE Owner

is_menu_payload(payload) == payload.activity = "menu"

\* ------------------------------------------------------------------------
\* PayloadExtractor
\* ------------------------------------------------------------------------
\* extract_round_state: win condition from (phase, win_team, bomb)
WinCondition(phase, win_team, bomb) ==
    IF phase = "over" /\ win_team # None
    THEN IF bomb = "exploded" THEN "bomb_exploded"
         ELSE IF bomb = "defused" THEN "bomb_defused"
         ELSE "elimination"
    ELSE None

\* wire round -> stored round number
AdjustRound(wround) == wround + 1

extract_match_state(payload, ts) ==
    [phase |-> payload.mphase, round |-> AdjustRound(payload.wround),
     team_ct_score |-> payload.ct, team_t_score |-> payload.t, timestamp |-> ts]

extract_round_state(payload, ts) ==
    [round_number |-> AdjustRound(payload.wround), phase |-> payload.rphase,
     win_team |-> payload.win,
     win_condition |-> WinCondition(payload.rphase, payload.win, payload.bomb),
     timestamp |-> ts]

extract_player_state(payload, ts) ==
    [steam_id |-> payload.player, state_timestamp |-> ts]

\* extract_all_weapons: slot -> WeaponState, every state stamped with ts
extract_all_weapons(payload, ts) ==
    [i \in 1..Len(payload.weapons) |->
        [name |-> payload.weapons[i], steam_id |-> payload.player, state_timestamp |-> ts]]

\* the class object RoundState (initial value of previous_round_state) is
\* object 0: its attributes are the dataclass defaults
ClassRoundState ==
    [round_number |-> 0, phase |-> None, win_team |-> None, win_condition |-> None,
     timestamp |-> NoTs]

Deref(h, id) == IF id = 0 THEN ClassRoundState ELSE h[id]

NoHistory == 0 - 1

NewExtractor ==
    [current_round |-> 0, previous_round_state |-> 0,
     round_history |-> [n \in 0..MaxRound |-> NoHistory],
     processed_rounds |-> {}]

get_round_winner(ex, h, n) ==
    IF ex.round_history[n] # NoHistory THEN Deref(h, ex.round_history[n]).win_team ELSE None

get_round_win_condition(ex, h, n) ==
    IF ex.round_history[n] # NoHistory THEN Deref(h, ex.round_history[n]).win_condition ELSE None

\* _update_internal_state, round part.  ex: extractor, h: heap, id: the object
\* just extracted (already in h).  The previous current_round object is
\* renumbered and may take over the new winner: it is mutated in place.
UpdateHeap(ex, h, id) ==
    LET new == h[id]
        cur == ex.current_round
    IN IF cur = 0 THEN h
       ELSE [h EXCEPT ![cur] =
               [@ EXCEPT !.round_number = new.round_number - 1,
                         !.win_team = IF new.win_team # None /\ new.win_condition # None
                                      THEN new.win_team ELSE @,
                         !.win_condition = IF new.win_team # None /\ new.win_condition # None
                                           THEN new.win_condition ELSE @]]

UpdateExtractor(ex, h, id) ==
    LET new == h[id]
        cur == ex.current_round
        old_phase == IF cur = 0 THEN None ELSE h[cur].phase
        old_round_number == new.round_number - 1
        prev == IF cur # 0 THEN cur ELSE ex.previous_round_state
        completes == new.phase = "over" /\ new.win_team # None
    IN [current_round |-> id,
        previous_round_state |-> prev,
        round_history |-> IF completes
                          THEN [ex.round_history EXCEPT ![old_round_number] = prev]
                          ELSE ex.round_history,
        processed_rounds |->
            IF old_phase # "over" /\ completes /\ new.round_number \notin ex.processed_rounds
            THEN ex.processed_rounds \cup {old_round_number}
            ELSE ex.processed_rounds]

\* ------------------------------------------------------------------------
\* MatchProcessor state
\* ------------------------------------------------------------------------
\* Optional values are sequences of length at most one
Some(x) == <<x>>
Nothing == <<>>

\* ---- asyncio.Lock ----
\* the holder of a lock that nobody holds
Free == 0

\* acquire by coroutine t: returns at once, without yielding, on a free lock
lock_acquire(holder, t) == t

\* fault model: a critical section that keeps its lock over what follows it
KeepsLock(holder) == holder

\* release, at the end of `async with`
lock_release(holder) == Free

\* a critical section of coroutine t without an await inside
Critical(holder, t) == lock_release(lock_acquire(holder, t))

\* a critical section of coroutine t under the persistence_lock of processor p
Locked(prcs, p, t) == [prcs EXCEPT ![p].persistence_lock = Critical(@, t)]

NewProcessor(owner, t0) ==
    [owner_steam_id |-> owner,
     extractor |-> NewExtractor,
     match_state |-> Nothing,
     round_state |-> 0,
     player_states_history |-> <<>>,
     weapon_states_history |-> <<>>,
     match_persisted |-> FALSE,
     rounds_persisted |-> {},
     current_round |-> 0,
     is_completed |-> FALSE,
     persistence_lock |-> Free,
     last_update_time |-> t0]

match_phase_nominal(ms) == ms.phase # "unknown" /\ ms.phase # "warmup"

_has_match_changes(proc, new_state) ==
    \/ proc.match_state = Nothing
    \/ LET old == proc.match_state[1]
       IN \/ old.phase # new_state.phase
          \/ old.round # new_state.round
          \/ old.team_ct_score # new_state.team_ct_score
          \/ old.team_t_score # new_state.team_t_score

is_match_completed(proc) ==
    proc.is_completed \/ (now - proc.last_update_time > InactivityTimeout)

\* ------------------------------------------------------------------------
\* Tasks
\* ------------------------------------------------------------------------
NoPayload == Payload(None, FALSE, None, 0, 0, 0, None, None, None, None, <<>>)

NewTask(kind, pc, p) ==
    [kind |-> kind, pc |-> pc, p |-> p,
     payload |-> NoPayload,
     is_owner_playing |-> FALSE,
     ts |-> NoTs,              \* timestamp of process_payload
     rs |-> 0,                 \* processed_data['round_state'] (object id)
     round_number |-> 0,       \* old_round / round_num / round_number
     new_round |-> 0,
     winning_team |-> None,
     win_condition |-> None,
     caller |-> None,          \* who called _persist_round_data
     i |-> 0,                  \* loop index of the batch being written
     pstates |-> <<>>,         \* player_states argument once detached
     wstates |-> <<>>,         \* weapon_states_history argument once detached
     j |-> 0,                  \* slot index inside one weapon snapshot
     to_create |-> {},         \* weapons_to_create (slots)
     plive |-> FALSE,          \* player_states is still the processor's list object
     wlive |-> FALSE,          \* weapon_states_history is still the processor's list object
     last |-> 0,               \* upper end of range(1, current_round + 1)
     ct_score |-> 0,
     t_score |-> 0,
     arg_ts |-> NoTs,          \* timestamp argument of the pending call
     arg_phase |-> None,       \* phase argument of the pending create_round
     arg_state |-> Nothing,    \* PlayerState argument of the pending stats upsert
     late |-> FALSE,           \* observation: the snapshot came after a complete_match
     token |-> None]           \* observation: auth.token of the request

FreeTaskId == CHOOSE id \in 1..(Cardinality(DOMAIN tasks) + 1) : id \notin DOMAIN tasks

Handlers == {t \in DOMAIN tasks : tasks[t].kind = "handle_payload"}

\* func with key k mapped to v (k may be new)
Put(f, k, v) == [x \in DOMAIN f \cup {k} |-> IF x = k THEN v ELSE f[x]]
Drop(f, k) == [x \in DOMAIN f \ {k} |-> f[x]]

\* ------------------------------------------------------------------------
\* Persistence layer (gsi/django_integration.py) over the schema of
\* apps/matches/models.py and apps/stats/models.py.  Every operation catches
\* its own exceptions and returns a falsy value instead of raising.
\* ------------------------------------------------------------------------
match_exists(m) == m \in DOMAIN matches

\* INSERT INTO matches_match: match_id is the primary key
MatchRow(ms) ==
    [start_timestamp |-> ms.timestamp, end_timestamp |-> NoTs,
     rounds_played |-> ms.round,
     team_ct_score |-> ms.team_ct_score, team_t_score |-> ms.team_t_score]

create_match_ok(m) == m \notin DOMAIN matches

create_match(m, ms) ==
    IF create_match_ok(m) THEN Put(matches, m, MatchRow(ms)) ELSE matches

update_match(m, ms) ==
    IF m \in DOMAIN matches
    THEN [matches EXCEPT ![m] = [@ EXCEPT !.team_ct_score = ms.team_ct_score,
                                          !.team_t_score = ms.team_t_score,
                                          !.rounds_played = ms.round]]
    ELSE matches

complete_match(m, ct_score, t_score, total_rounds, timestamp) ==
    IF m \in DOMAIN matches
    THEN [matches EXCEPT ![m] = [@ EXCEPT !.end_timestamp = timestamp,
                                          !.rounds_played = total_rounds,
                                          !.team_ct_score = ct_score,
                                          !.team_t_score = t_score]]
    ELSE matches

round_exists(m, n) == \E r \in rounds : r.match_id = m /\ r.round_number = n

\* UniqueConstraint(fields=['match', 'round_number'], name='unique_round')
unique_round(m, n) == ~round_exists(m, n)

\* ForeignKey(Match) of Round, PlayerRoundState, PlayerWeapon, PlayerMatchStat
match_fk(m) == m \in DOMAIN matches

\* fault model: a schema whose steam_account columns carry no foreign key
no_steam_account_fk(sid) == TRUE

\* ForeignKey(SteamAccount) of PlayerRoundState, PlayerWeapon, PlayerMatchStat
steam_account_fk(sid) == sid \in accounts

\* fault model: a create_round that stamps the row itself when it is called
\* without a timestamp
DefaultsTimestamp(timestamp) == TRUE

\* convert_unix_timestamp_to_datetime raises on a missing timestamp
timestamp_ok(timestamp) == timestamp # NoTs

\* _create_round_sync: the conversion of the timestamp and the INSERT are
\* inside one try block; any exception makes the call return None
create_round_ok(m, n, timestamp) ==
    timestamp_ok(timestamp) /\ match_fk(m) /\ unique_round(m, n)

create_round(m, n, phase, winning_team, win_condition, timestamp) ==
    IF create_round_ok(m, n, timestamp)
    THEN rounds \cup {[match_id |-> m, round_number |-> n, phase |-> phase,
                       winning_team |-> winning_team, win_condition |-> win_condition]}
    ELSE rounds

update_round_winner(m, n, winning_team, win_condition) ==
    { IF r.match_id = m /\ r.round_number = n
      THEN [r EXCEPT !.winning_team = winning_team, !.win_condition = win_condition,
                     !.phase = "over"]
      ELSE r : r \in rounds }

\* _ensure_steam_account_sync: the auth token if the account exists, else None;
\* never creates the account
ensure_steam_account(sid) == sid \in accounts

player_round_state_exists(m, n, state) ==
    \E r \in prs : /\ r.match_id = m /\ r.round_number = n
                   /\ r.steam_account = state.steam_id
                   /\ r.state_timestamp = state.state_timestamp

\* _create_player_round_state_sync
create_player_round_state_row(m, n, state) ==
    IF match_fk(m) /\ steam_account_fk(state.steam_id) /\ ~player_round_state_exists(m, n, state)
    THEN prs \cup {[match_id |-> m, round_number |-> n, steam_account |-> state.steam_id,
                    state_timestamp |-> state.state_timestamp]}
    ELSE prs

get_weapon_id_by_name(name) == name \in KnownWeapons

player_weapon_exists(m, n, sid, weapon, ts) ==
    \E r \in pw : /\ r.match_id = m /\ r.round_number = n /\ r.steam_account = sid
                  /\ r.weapon = weapon /\ r.state_timestamp = ts

\* one INSERT of _create_player_weapon_states_sync
insert_player_weapon(table, m, n, sid, w) ==
    IF /\ w.name \in KnownWeapons /\ match_fk(m) /\ steam_account_fk(sid)
       /\ ~\E r \in table : /\ r.match_id = m /\ r.round_number = n /\ r.steam_account = sid
                            /\ r.weapon = w.name /\ r.state_timestamp = w.state_timestamp
    THEN table \cup {[match_id |-> m, round_number |-> n, steam_account |-> sid,
                      weapon |-> w.name, state_timestamp |-> w.state_timestamp]}
    ELSE table

\* _create_player_weapon_states_sync: the weapons of `slots`, in slot order
RECURSIVE insert_player_weapons(_, _, _, _, _, _)
insert_player_weapons(table, m, n, sid, ws, slots) ==
    IF slots = {} THEN table
    ELSE LET s == CHOOSE x \in slots : \A y \in slots : x <= y
         IN insert_player_weapons(insert_player_weapon(table, m, n, sid, ws[s]),
                                  m, n, sid, ws, slots \ {s})

\* _update_player_match_stats_sync: INSERT ... ON CONFLICT DO UPDATE
update_player_match_stats(m, state) ==
    IF match_fk(m) /\ steam_account_fk(state.steam_id)
    THEN {r \in pms : ~(r.match_id = m /\ r.steam_account = state.steam_id)}
         \cup {[match_id |-> m, steam_account |-> state.steam_id,
                state_timestamp |-> state.state_timestamp]}
    ELSE pms

\* ------------------------------------------------------------------------
\* Initial state: empty store, no processor, idle event loop
\* ------------------------------------------------------------------------
NewLog ==
    [snapshots |-> {},          \* payloads handed to route_payload, with their routing
     create_match_calls |-> <<>>,  \* per processor: create_match calls issued
     gameover_handled |-> {},   \* processors whose handler of a gameover snapshot returned
     complete_match_calls |-> {},  \* processors for which complete_match was executed
     responses |-> {},          \* HTTP responses, with the request they answer
     faults |-> 0,              \* update_match calls that returned False
     failed_update |-> {}]      \* processors whose latest update_match returned False

\* ------------------------------------------------------------------------
\* TokenCache (async_server.py)
\* ------------------------------------------------------------------------
RefreshInterval == 600
MaxPeriods == 2
MaxWaiting == 1

\* the tokens TokenCache.tokens holds (loaded by initialize at start-up)
CachedTokens == {"token"}

LegacyToken == "legacy"           \* GSI_LEGACY_TOKEN
LegacySteamId == "LEGACY_TOKEN"   \* the sentinel steam_id
IssuedTokens == <<"token", "rotated">>   \* the owner's auth_token over time

NoTokens == [k \in {} |-> None]

OwnerToken(k) == [x \in {IssuedTokens[k]} |-> Owner]

\* the characters of a token, as an f-string writes them
Text(token) ==
    CASE token = "token" -> <<"t", "o", "k", "e", "n">>
      [] token = "rotated" -> <<"r", "o", "t", "a", "t", "e", "d">>
      [] token = "unknown" -> <<"u", "n", "k", "n", "o", "w", "n">>
      [] token = "legacy" -> <<"l", "e", "g", "a", "c", "y">>
      [] OTHER -> <<>>

Contains(text, part) ==
    \E i \in 1..(Len(text) + 1) :
        /\ i + Len(part) - 1 <= Len(text)
        /\ SubSeq(text, i, i + Len(part) - 1) = part

\* the value `await self._get_all_tokens()` produced, if any
NotFetched == [state |-> "none", tokens |-> NoTokens]
Fetched(rows) == [state |-> "ok", tokens |-> rows]
FetchFailed == [state |-> "failed", tokens |-> NoTokens]

\* TokenCache.__init__
NewTokenCache ==
    [tokens |-> NoTokens, last_refresh |-> 0, initialized |-> FALSE,
     lock |-> None, fetched |-> NotFetched]

\* the cache of a server that has started and serves requests
StartedTokenCache ==
    [tokens |-> [k \in CachedTokens |-> Owner], last_refresh |-> 0, initialized |-> TRUE,
     lock |-> None, fetched |-> NotFetched]

\* main() has reached `while True` in start(); no legacy token configured
StartedServer == [main |-> "serving", legacy |-> None, wake |-> RefreshInterval,
                  caller |-> None, issued |-> 1,
                  waiting |-> <<>>, loading |-> {}]

\* the test `token in self.tokens` of is_valid_token
token_in_cache(cache, token) == token \in DOMAIN cache.tokens

\* `time.time() - self.last_refresh > self.refresh_interval`
cache_outdated(cache, time) == time - cache.last_refresh > RefreshInterval

\* fault model: a cache whose loads are not guarded by the lock
Unlocked(cache) == TRUE

\* `async with self.lock` enters at once iff nobody holds the lock
cache_lock_free(cache) == cache.lock = None

InitOf(sessions) ==
    /\ now = 0
    /\ \E session \in sessions :
        /\ alphabet = session.payloads
        /\ ticks = session.ticks
        /\ accounts = session.accounts
    /\ matches = <<>>
    /\ rounds = {}
    /\ prs = {}
    /\ pw = {}
    /\ pms = {}
    /\ match_processors = {}
    /\ lock = Free
    /\ procs = <<>>
    /\ heap = <<>>
    /\ tasks = <<>>
    /\ ready = <<>>
    /\ dbq = <<>>
    /\ running = 0
    /\ received = 0
    /\ overlapped = 0
    /\ log = NewLog
    /\ token_cache = StartedTokenCache
    /\ auth_tokens = [k \in CachedTokens |-> Owner]
    /\ server = StartedServer
    /\ server_log = {}

Init == InitOf(Sessions)

\* ------------------------------------------------------------------------
\* Event loop
\* ------------------------------------------------------------------------
\* An entry of `ready` is a task made by asyncio.create_task together with
\* `ahead`, the number of persistence calls that were submitted before the
\* task was made and whose coroutines have not been resumed yet: only those
\* resumptions can come before the start of the task.

\* the coroutine that awaits the oldest persistence call is resumed now
Resumes(t) ==
    /\ running = 0
    /\ dbq # <<>> /\ Head(dbq) = t
    /\ ready # <<>> => Head(ready).ahead > 0

\* the oldest task made by asyncio.create_task starts now
Starts(t) ==
    /\ running = 0
    /\ ready # <<>> /\ Head(ready).task = t

\* coroutine t executes the step that begins at `label`: it owns the loop, or
\* the loop is idle and t is the next one to be resumed or started
At(t, label) ==
    /\ t \in DOMAIN tasks
    /\ tasks[t].pc = label
    /\ running = t \/ Resumes(t) \/ Starts(t)

\* the queues once t has taken the loop
DbqAfter(t) == IF Resumes(t) THEN Tail(dbq) ELSE dbq

ReadyEntry(c, t) == [task |-> c, ahead |-> Len(DbqAfter(t))]

ReadyAfter(t) ==
    IF Starts(t) THEN Tail(ready)
    ELSE IF Resumes(t) /\ ready # <<>>
    THEN [k \in 1..Len(ready) |-> [ready[k] EXCEPT !.ahead = @ - 1]]
    ELSE ready

\* the coroutine goes on without giving up the loop
Run(tk, t, label, rdy) ==
    /\ tasks' = [tk EXCEPT ![t].pc = label]
    /\ running' = t
    /\ dbq' = DbqAfter(t)
    /\ ready' = rdy

Goto(tk, t, label) == Run(tk, t, label, ReadyAfter(t))

\* the coroutine awaits the persistence call `label`
Yield(tk, t, label, rdy) ==
    /\ tasks' = [tk EXCEPT ![t].pc = label]
    /\ running' = 0
    /\ dbq' = Append(DbqAfter(t), t)
    /\ ready' = rdy

Await(tk, t, label) == Yield(tk, t, label, ReadyAfter(t))

\* the coroutine returns
Finish(tk, t) ==
    /\ tasks' = Drop(tk, t)
    /\ running' = 0
    /\ dbq' = DbqAfter(t)
    /\ ready' = ReadyAfter(t)

\* GSIServer.handle_gsi_payload hands an authenticated payload to
\* route_payload.  Tasks made by create_task are already in the loop's ready
\* queue and run before a request that arrives later.
\* ---- GSIServer: requests, authentication, responses ----
\* auth.token of a request: absent, not in the cache, or in the cache
PresentedTokens == {None, "unknown", "token"}

\* the provider and player members of a decoded body: JSON objects (or
\* absent, see the payloads), or present with a value that is not an object
MemberShapes == {"object", "scalar"}

\* a POST body: json is FALSE for a body that is not valid JSON
Request(json, token, members) == [json |-> json, token |-> token, members |-> members]

Requests ==
    { Request(json, token, members) :
        json \in BOOLEAN, token \in PresentedTokens, members \in MemberShapes }

\* handle_gsi_payload reads payload['provider'].get and payload['player'].get
\* when both members are present: a member that is not an object raises
\* AttributeError, which the handler answers in its `except Exception` branch
logging_raises(request) == request.members = "scalar"

\* fault model: a server that hands every decoded body to the Match Manager
AcceptsAnyRequest(request) == TRUE

\* _authenticate_payload: the token is present and TokenCache.is_valid_token
_authenticate_payload(request) == request.token # None /\ request.token \in CachedTokens

\* route_payload catches every exception and returns False: nothing reaches
\* the except branches of handle_gsi_payload
route_payload_raises(payload) == FALSE

\* the status handle_gsi_payload answers with
StatusOf(request, raised) ==
    IF ~request.json THEN 400
    ELSE IF ~_authenticate_payload(request) THEN 401
    ELSE IF logging_raises(request) \/ raised THEN 500
    ELSE 200

Respond(lg, request, raised) ==
    [lg EXCEPT !.responses = @ \cup {[request |-> request,
                                      status |-> StatusOf(request, raised)]}]

\* the request that coroutine t serves
RequestOf(t) == Request(TRUE, tasks[t].token, "object")

\* handle_gsi_payload for a body that is not JSON, does not authenticate or
\* makes the handler raise: the response is sent without a call of
\* route_payload
handle_gsi_payload_rejects ==
    /\ running = 0
    /\ ready = <<>>
    /\ received < MaxSnapshots + Deeper
    /\ \E request \in Requests :
        /\ ~request.json \/ ~_authenticate_payload(request) \/ logging_raises(request)
        /\ ~request.json => request.token = None
        /\ (~request.json \/ ~_authenticate_payload(request)) => request.members = "object"
        /\ log' = Respond(log, request, FALSE)
    /\ received' = received + 1
    /\ UNCHANGED <<now, accounts, client, startup, store, manager, procs, heap, tasks,
                   ready, dbq, running, overlapped>>

Receive ==
    /\ running = 0
    /\ ready = <<>>
    /\ received < MaxSnapshots + Deeper
    /\ Cardinality(Handlers) < MaxInFlight + Deeper
    /\ Handlers # {} => overlapped < MaxOverlaps + Deeper
    /\ \E payload \in alphabet, dt \in ticks, request \in Requests :
        /\ request.json
        /\ _authenticate_payload(request)
        /\ ~logging_raises(request)
        /\ now + dt <= MaxTime + InactivityTimeout
        /\ now' = now + dt
        /\ LET t == FreeTaskId
           IN /\ tasks' = Put(tasks, t, [NewTask("handle_payload", "route_payload", 0)
                                          EXCEPT !.payload = payload,
                                                 !.late = log.complete_match_calls # {},
                                                 !.token = request.token])
              /\ running' = t
    /\ received' = received + 1
    /\ overlapped' = IF Handlers # {} THEN overlapped + 1 ELSE overlapped
    /\ UNCHANGED <<accounts, client, startup, store, manager, procs, heap, ready, dbq, log>>

\* ------------------------------------------------------------------------
\* MatchManager.route_payload
\* ------------------------------------------------------------------------
\* _get_or_create_processor: the first processor of the map with this base id
\* (every processor of this model has the one base id)
\* fault model: a manager that never finds a processor in its map
NoProcessor(base_match_id) == 0

ExistingProcessor(base_match_id) ==
    IF match_processors = {} THEN 0
    ELSE CHOOSE p \in match_processors : \A q \in match_processors : p <= q

\* route_payload gives up (returns False) before a processor is looked up
RouteRejects(payload) ==
    \/ extract_base_match_id(payload) = None
    \/ payload.player = None

route_payload(t) ==
    /\ At(t, "route_payload")
    /\ LET payload == tasks[t].payload
           base == extract_base_match_id(payload)
       IN IF RouteRejects(payload)
          THEN /\ Finish(tasks, t)
               /\ log' = Respond([log EXCEPT !.snapshots = @ \cup {[p |-> 0, payload |-> payload,
                                                                    ts |-> NoTs]}],
                                  RequestOf(t), route_payload_raises(payload))
               /\ UNCHANGED <<manager, procs>>
          ELSE LET existing == ExistingProcessor(base)
                   p == IF existing # 0 THEN existing ELSE Len(procs) + 1
               IN /\ procs' = IF existing # 0 THEN procs
                              ELSE Append(procs, NewProcessor(Owner, now))
                  /\ existing = 0 => lock = Free
                  /\ lock' = IF existing = 0 THEN Critical(lock, t) ELSE lock
                  /\ match_processors' = match_processors \cup {p}
                  /\ log' = IF existing # 0 THEN log
                            ELSE [log EXCEPT !.create_match_calls = Append(@, 0)]
                  /\ Goto([tasks EXCEPT ![t].p = p,
                                        ![t].is_owner_playing = (Owner = payload.player)],
                          t, "handle_payload")
    /\ UNCHANGED <<now, accounts, client, startup, store, heap, arrivals>>

\* _cleanup_completed_matches, then route_payload returns True
_cleanup_completed_matches(t) ==
    /\ At(t, "_cleanup_completed_matches")
    /\ LET to_remove == {p \in match_processors : is_match_completed(procs[p])}
       IN /\ to_remove # {} => lock = Free
          /\ lock' = IF to_remove # {} THEN Critical(lock, t) ELSE lock
          /\ match_processors' = match_processors \ to_remove
    /\ log' = Respond(IF tasks[t].payload.mphase = "gameover"
                      THEN [log EXCEPT !.gameover_handled = @ \cup {tasks[t].p}]
                      ELSE log,
                      RequestOf(t), route_payload_raises(tasks[t].payload))
    /\ Finish(tasks, t)
    /\ UNCHANGED <<now, accounts, client, startup, store, procs, heap, arrivals>>

\* ------------------------------------------------------------------------
\* MatchProcessor.handle_payload
\* ------------------------------------------------------------------------
\* fault model: a processor that handles the player section of every snapshot
HandlesAnyPlayer(is_owner_playing) == TRUE

\* the player section is handled only for the owner's own player
HandlesPlayer(is_owner_playing) == is_owner_playing

\* handle_payload up to the first await of _handle_match_data
handle_payload(t) ==
    /\ At(t, "handle_payload")
    /\ LET p == tasks[t].p
           payload == tasks[t].payload
           ts == now
           ms == extract_match_state(payload, ts)
           id == Len(heap) + 1
           h1 == Append(heap, extract_round_state(payload, ts))
           ex == procs[p].extractor
           tk == [tasks EXCEPT ![t].ts = ts, ![t].rs = id]
       IN /\ heap' = UpdateHeap(ex, h1, id)
          /\ procs' = [procs EXCEPT ![p].last_update_time = now,
                                    ![p].extractor = UpdateExtractor(ex, h1, id)]
          /\ log' = [log EXCEPT !.snapshots = @ \cup {[p |-> p, payload |-> payload,
                                                       ts |-> ts]}]
          /\ IF ~match_phase_nominal(ms)
             THEN Goto(tk, t, "_cleanup_completed_matches")
             ELSE IF ~procs[p].match_persisted
             THEN Await(tk, t, "match_exists")
             ELSE IF procs[p].match_state # Nothing /\ _has_match_changes(procs[p], ms)
             THEN Await(tk, t, "update_match")
             ELSE Goto(tk, t, "set_match_state")
    /\ UNCHANGED <<now, accounts, client, startup, store, manager, arrivals>>

TaskMatchState(t) == extract_match_state(tasks[t].payload, tasks[t].ts)

\* ensure_match: match_exists
ensure_match_exists(t) ==
    /\ At(t, "match_exists")
    /\ LET p == tasks[t].p
       IN IF match_exists(p)
          THEN /\ procs' = [procs EXCEPT ![p].match_persisted = TRUE]
               /\ Goto(tasks, t, "set_match_state")
          ELSE /\ Await(tasks, t, "create_match")
               /\ UNCHANGED procs
    /\ UNCHANGED <<now, accounts, client, startup, store, manager, heap, arrivals, log>>

\* ensure_match: create_match; its result becomes match_persisted
ensure_match_create(t) ==
    /\ At(t, "create_match")
    /\ LET p == tasks[t].p
       IN /\ matches' = create_match(p, TaskMatchState(t))
          /\ procs' = [procs EXCEPT ![p].match_persisted = create_match_ok(p)]
          /\ log' = [log EXCEPT !.create_match_calls[p] = @ + 1]
    /\ Goto(tasks, t, "set_match_state")
    /\ UNCHANGED <<now, accounts, client, startup, rounds, prs, pw, pms, manager, heap,
                   arrivals>>

\* update_match: the UPDATE is executed, or it raises inside
\* _update_match_sync, which then returns False; the caller ignores the result
handle_match_update(t) ==
    /\ At(t, "update_match")
    /\ \E raises \in BOOLEAN :
          /\ raises => log.faults < MaxFaults
          /\ matches' = IF raises THEN matches
                        ELSE update_match(tasks[t].p, TaskMatchState(t))
          /\ log' = [log EXCEPT
                       !.faults = IF raises THEN @ + 1 ELSE @,
                       !.failed_update = IF raises THEN @ \cup {tasks[t].p}
                                         ELSE @ \ {tasks[t].p}]
    /\ Goto(tasks, t, "set_match_state")
    /\ UNCHANGED <<now, accounts, client, startup, rounds, prs, pw, pms, manager, procs,
                   heap, arrivals>>

\* set_match_state dispatches _handle_match_completion when the phase of an
\* earlier match state differs and the new one is gameover
DispatchesCompletion(old_state, new_state) ==
    /\ old_state # Nothing
    /\ old_state[1].phase # new_state.phase
    /\ new_state.phase = "gameover"

\* set_match_state, then _handle_round_data up to the round transition
set_match_state(t) ==
    /\ At(t, "set_match_state")
    /\ LET p == tasks[t].p
           ms == TaskMatchState(t)
           new_round == heap[tasks[t].rs].round_number
           spawn == DispatchesCompletion(procs[p].match_state, ms)
           c == FreeTaskId
           rdy == IF spawn THEN Append(ReadyAfter(t), ReadyEntry(c, t)) ELSE ReadyAfter(t)
           tk == IF spawn
                 THEN Put(tasks, c, [NewTask("_handle_match_completion",
                                             "_handle_match_completion", p)
                                       EXCEPT !.late = tasks[t].late])
                 ELSE tasks
       IN /\ procs' = [procs EXCEPT ![p].match_state = Some(ms)]
          /\ IF procs[p].current_round # new_round
             THEN Run([tk EXCEPT ![t].round_number = procs[p].current_round,
                                 ![t].new_round = new_round],
                      t, "_handle_round_transition", rdy)
             ELSE Run(tk, t, "set_round_state", rdy)
    /\ UNCHANGED <<now, accounts, client, startup, store, manager, heap, arrivals, log>>

\* ------------------------------------------------------------------------
\* Round transition
\* ------------------------------------------------------------------------
\* _handle_round_transition, step 1: claim the old round under the lock;
\* _complete_round reads the winner from the extractor and asks whether the
\* round row exists
\* fault model: a processor that does not look up rounds_persisted before it
\* claims a round
AlwaysUnclaimed(proc, round_number) == TRUE

\* `round_number not in self.rounds_persisted`, read under persistence_lock by
\* the round transition and by the completion flush before they claim a round
Unclaimed(proc, round_number) == round_number \notin proc.rounds_persisted

_handle_round_transition(t) ==
    /\ At(t, "_handle_round_transition")
    /\ LET p == tasks[t].p
           old_round == tasks[t].round_number
           should_complete == old_round > 0 /\ Unclaimed(procs[p], old_round)
       IN IF should_complete
          THEN /\ procs[p].persistence_lock = Free
               /\ procs' = Locked([procs EXCEPT ![p].rounds_persisted = @ \cup {old_round}],
                                  p, t)
               /\ Await([tasks EXCEPT
                           ![t].winning_team =
                               get_round_winner(procs[p].extractor, heap, old_round),
                           ![t].win_condition =
                               get_round_win_condition(procs[p].extractor, heap, old_round)],
                        t, "_complete_round_exists")
          ELSE /\ old_round > 0 => procs[p].persistence_lock = Free
               /\ procs' = IF old_round > 0 THEN Locked(procs, p, t) ELSE procs
               /\ Goto(tasks, t, "_handle_round_transition_2")
    /\ UNCHANGED <<now, accounts, client, startup, store, manager, heap, arrivals, log>>

\* _complete_round after round_exists: write the winner if one is known
_complete_round_exists(t) ==
    /\ At(t, "_complete_round_exists")
    /\ LET p == tasks[t].p
           n == tasks[t].round_number
       IN IF tasks[t].winning_team # None
          THEN IF round_exists(p, n)
               THEN Await(tasks, t, "_complete_round_update")
               ELSE Await([tasks EXCEPT ![t].arg_ts = procs[p].match_state[1].timestamp],
                          t, "_complete_round_create")
          ELSE Goto([tasks EXCEPT ![t].caller = "_complete_round"], t, "_persist_round_data")
    /\ UNCHANGED <<now, accounts, client, startup, store, manager, procs, heap, arrivals, log>>

_complete_round_update(t) ==
    /\ At(t, "_complete_round_update")
    /\ rounds' = update_round_winner(tasks[t].p, tasks[t].round_number,
                                     tasks[t].winning_team, tasks[t].win_condition)
    /\ Goto([tasks EXCEPT ![t].caller = "_complete_round"], t, "_persist_round_data")
    /\ UNCHANGED <<now, accounts, client, startup, matches, prs, pw, pms, manager, procs,
                   heap, arrivals, log>>

_complete_round_create(t) ==
    /\ At(t, "_complete_round_create")
    /\ rounds' = create_round(tasks[t].p, tasks[t].round_number, "over",
                              tasks[t].winning_team, tasks[t].win_condition, tasks[t].arg_ts)
    /\ Goto([tasks EXCEPT ![t].caller = "_complete_round"], t, "_persist_round_data")
    /\ UNCHANGED <<now, accounts, client, startup, matches, prs, pw, pms, manager, procs,
                   heap, arrivals, log>>

\* where _persist_round_data returns to
ReturnFromPersist(tk, t) ==
    IF tk[t].caller = "_complete_round"
    THEN Goto(tk, t, "_handle_round_transition_2")
    ELSE Goto([tk EXCEPT ![t].round_number = @ + 1], t, "_handle_match_completion_loop")

\* _handle_round_transition, steps 2 and 3: no new round once the match is
\* completed; otherwise make sure a row exists for an active new round
_handle_round_transition_2(t) ==
    /\ At(t, "_handle_round_transition_2")
    /\ LET p == tasks[t].p
           new_round_state == heap[tasks[t].rs]
       IN /\ procs[p].persistence_lock = Free
          /\ procs' = Locked(procs, p, t)
          /\ IF procs[p].is_completed
             THEN Goto(tasks, t, "set_round_state")
             ELSE IF new_round_state.phase \in {"freezetime", "live"} /\ tasks[t].new_round > 0
             THEN Await(tasks, t, "transition_round_exists")
             ELSE Goto(tasks, t, "set_round_state")
    /\ UNCHANGED <<now, accounts, client, startup, store, manager, heap, arrivals, log>>

transition_round_exists(t) ==
    /\ At(t, "transition_round_exists")
    /\ IF round_exists(tasks[t].p, tasks[t].new_round)
       THEN Goto(tasks, t, "set_round_state")
       ELSE Await(tasks, t, "ensure_round_exists")
    /\ UNCHANGED <<now, accounts, client, startup, store, manager, procs, heap, arrivals, log>>

\* ensure_round: a timestamp that was passed in is replaced by time.time()
ensure_round_exists(t) ==
    /\ At(t, "ensure_round_exists")
    /\ IF round_exists(tasks[t].p, tasks[t].new_round)
       THEN Goto(tasks, t, "set_round_state")
       ELSE Await([tasks EXCEPT ![t].arg_ts = now,
                                ![t].arg_phase = heap[tasks[t].rs].phase],
                  t, "ensure_round_create")
    /\ UNCHANGED <<now, accounts, client, startup, store, manager, procs, heap, arrivals, log>>

ensure_round_create(t) ==
    /\ At(t, "ensure_round_create")
    /\ rounds' = create_round(tasks[t].p, tasks[t].new_round, tasks[t].arg_phase,
                              None, None, tasks[t].arg_ts)
    /\ Goto(tasks, t, "set_round_state")
    /\ UNCHANGED <<now, accounts, client, startup, matches, prs, pw, pms, manager, procs,
                   heap, arrivals, log>>

\* set_round_state starts _update_round_winner when the phase of an earlier
\* round state differs, the new one is over and carries a winner
DispatchesWinner(old_state, new_state) ==
    /\ old_state.phase # None
    /\ old_state.phase # new_state.phase
    /\ new_state.phase = "over"
    /\ new_state.win_team # None

\* set_round_state, then the start of _handle_player_data
set_round_state(t) ==
    /\ At(t, "set_round_state")
    /\ LET p == tasks[t].p
           old_state == Deref(heap, procs[p].round_state)
           new_state == heap[tasks[t].rs]
           to_over == /\ procs[p].round_state # 0
                      /\ old_state.phase # new_state.phase
                      /\ new_state.phase = "over"
           spawn == procs[p].round_state # 0 /\ DispatchesWinner(old_state, new_state)
           c == FreeTaskId
           rdy == IF spawn THEN Append(ReadyAfter(t), ReadyEntry(c, t)) ELSE ReadyAfter(t)
           tk == IF spawn
                 THEN Put(tasks, c, [NewTask("_update_round_winner", "_update_round_winner", p)
                                       EXCEPT !.late = tasks[t].late,
                                              !.round_number = new_state.round_number,
                                              !.winning_team = new_state.win_team,
                                              !.win_condition = new_state.win_condition])
                 ELSE tasks
       IN /\ procs' = [procs EXCEPT
                         ![p].round_state = tasks[t].rs,
                         ![p].current_round = new_state.round_number,
                         ![p].extractor.round_history =
                             IF to_over THEN [@ EXCEPT ![new_state.round_number] = tasks[t].rs]
                             ELSE @]
          /\ IF HandlesPlayer(tasks[t].is_owner_playing)
             THEN Yield(tk, t, "player_ensure_steam_account", rdy)
             ELSE Run(tk, t, "_cleanup_completed_matches", rdy)
    /\ UNCHANGED <<now, accounts, client, startup, store, manager, heap, arrivals, log>>

\* _handle_player_data after ensure_steam_account (its result is not used):
\* _add_player_state, then the stats upsert if the match is persisted
_handle_player_data(t) ==
    /\ At(t, "player_ensure_steam_account")
    /\ LET p == tasks[t].p
           player_state == extract_player_state(tasks[t].payload, tasks[t].ts)
       IN /\ procs' = [procs EXCEPT ![p].player_states_history = Append(@, player_state)]
          /\ IF procs[p].match_persisted
             THEN Await([tasks EXCEPT ![t].arg_state = Some(player_state)],
                        t, "player_update_match_stats")
             ELSE Goto(tasks, t, "_handle_weapon_data")
    /\ UNCHANGED <<now, accounts, client, startup, store, manager, heap, arrivals, log>>

player_update_match_stats(t) ==
    /\ At(t, "player_update_match_stats")
    /\ pms' = update_player_match_stats(tasks[t].p, tasks[t].arg_state[1])
    /\ Goto(tasks, t, "_handle_weapon_data")
    /\ UNCHANGED <<now, accounts, client, startup, matches, rounds, prs, pw, manager,
                   procs, heap, arrivals, log>>

\* _handle_weapon_data: _add_weapon_states unless the payload has no weapons
_handle_weapon_data(t) ==
    /\ At(t, "_handle_weapon_data")
    /\ LET p == tasks[t].p
           weapon_states == extract_all_weapons(tasks[t].payload, tasks[t].ts)
       IN procs' = IF weapon_states # <<>>
                   THEN [procs EXCEPT ![p].weapon_states_history = Append(@, weapon_states)]
                   ELSE procs
    /\ Goto(tasks, t, "_cleanup_completed_matches")
    /\ UNCHANGED <<now, accounts, client, startup, store, manager, heap, arrivals, log>>

\* ------------------------------------------------------------------------
\* _persist_round_data
\* ------------------------------------------------------------------------
\* the list objects a batch iterates: the processor's own list while it has
\* not been replaced by the clearing at the end of another persist
PlayerStates(t) ==
    IF tasks[t].plive THEN procs[tasks[t].p].player_states_history ELSE tasks[t].pstates

WeaponHistory(t) ==
    IF tasks[t].wlive THEN procs[tasks[t].p].weapon_states_history ELSE tasks[t].wstates

\* entry: nothing is written before the match is persisted or for a round
\* that is no longer marked
_persist_round_data(t) ==
    /\ At(t, "_persist_round_data")
    /\ LET p == tasks[t].p
           n == tasks[t].round_number
       IN IF procs[p].match_state = Nothing \/ ~procs[p].match_persisted
          THEN /\ ReturnFromPersist(tasks, t)
               /\ UNCHANGED procs
          ELSE /\ procs[p].persistence_lock = Free
               /\ procs' = Locked(procs, p, t)
               /\ IF n \notin procs[p].rounds_persisted
                  THEN ReturnFromPersist(tasks, t)
                  ELSE Await(tasks, t, "persist_round_exists")
    /\ UNCHANGED <<now, accounts, client, startup, store, manager, heap, arrivals, log>>

\* after round_exists: a missing round is created without a timestamp argument
persist_round_exists(t) ==
    /\ At(t, "persist_round_exists")
    /\ LET p == tasks[t].p
           n == tasks[t].round_number
       IN IF ~round_exists(p, n)
          THEN Await([tasks EXCEPT
                        ![t].winning_team = get_round_winner(procs[p].extractor, heap, n),
                        ![t].win_condition =
                            get_round_win_condition(procs[p].extractor, heap, n),
                        ![t].arg_phase = IF procs[p].round_state # 0
                                         THEN heap[procs[p].round_state].phase ELSE "over",
                        ![t].arg_ts = NoTs],
                     t, "persist_create_round")
          ELSE Goto([tasks EXCEPT ![t].i = 1, ![t].plive = TRUE],
                    t, "batch_create_player_states")
    /\ UNCHANGED <<now, accounts, client, startup, store, manager, procs, heap, arrivals, log>>

persist_create_round(t) ==
    /\ At(t, "persist_create_round")
    /\ rounds' = create_round(tasks[t].p, tasks[t].round_number, tasks[t].arg_phase,
                              tasks[t].winning_team, tasks[t].win_condition, tasks[t].arg_ts)
    /\ Goto([tasks EXCEPT ![t].i = 1, ![t].plive = TRUE], t, "batch_create_player_states")
    /\ UNCHANGED <<now, accounts, client, startup, matches, prs, pw, pms, manager, procs,
                   heap, arrivals, log>>

\* batch_create_player_states: head of the loop over the list
batch_create_player_states(t) ==
    /\ At(t, "batch_create_player_states")
    /\ IF tasks[t].i <= Len(PlayerStates(t))
       THEN Await(tasks, t, "player_round_state_exists")
       ELSE Goto([tasks EXCEPT ![t].i = 1, ![t].j = 1, ![t].to_create = {},
                               ![t].plive = FALSE, ![t].pstates = <<>>,
                               ![t].wlive = TRUE],
                 t, "batch_create_player_weapons")
    /\ UNCHANGED <<now, accounts, client, startup, store, manager, procs, heap, arrivals, log>>

batch_player_round_state_exists(t) ==
    /\ At(t, "player_round_state_exists")
    /\ IF player_round_state_exists(tasks[t].p, tasks[t].round_number,
                                    PlayerStates(t)[tasks[t].i])
       THEN Goto([tasks EXCEPT ![t].i = @ + 1], t, "batch_create_player_states")
       ELSE Await(tasks, t, "create_player_round_state")
    /\ UNCHANGED <<now, accounts, client, startup, store, manager, procs, heap, arrivals, log>>

\* create_player_round_state: skip the state of an unregistered account
create_player_round_state(t) ==
    /\ At(t, "create_player_round_state")
    /\ IF ensure_steam_account(PlayerStates(t)[tasks[t].i].steam_id)
       THEN Await(tasks, t, "_create_player_round_state_sync")
       ELSE Goto([tasks EXCEPT ![t].i = @ + 1], t, "batch_create_player_states")
    /\ UNCHANGED <<now, accounts, client, startup, store, manager, procs, heap, arrivals, log>>

_create_player_round_state_sync(t) ==
    /\ At(t, "_create_player_round_state_sync")
    /\ prs' = create_player_round_state_row(tasks[t].p, tasks[t].round_number,
                                            PlayerStates(t)[tasks[t].i])
    /\ Goto([tasks EXCEPT ![t].i = @ + 1], t, "batch_create_player_states")
    /\ UNCHANGED <<now, accounts, client, startup, matches, rounds, pw, pms, manager,
                   procs, heap, arrivals, log>>

\* batch_create_player_weapons: heads of the loops over the snapshots of the
\* history and over the weapons of one snapshot; afterwards the stats upsert
\* with the last buffered player state
batch_create_player_weapons(t) ==
    /\ At(t, "batch_create_player_weapons")
    /\ LET p == tasks[t].p
           hist == WeaponHistory(t)
           i == tasks[t].i
           j == tasks[t].j
       IN IF i <= Len(hist)
          THEN IF j <= Len(hist[i])
               THEN Await(tasks, t, "get_weapon_id_by_name")
               ELSE IF tasks[t].to_create # {}
               THEN Await(tasks, t, "create_player_weapon_states")
               ELSE Goto([tasks EXCEPT ![t].i = @ + 1, ![t].j = 1], t,
                         "batch_create_player_weapons")
          ELSE IF procs[p].player_states_history # <<>>
          THEN Await([tasks EXCEPT
                        ![t].wlive = FALSE, ![t].wstates = <<>>,
                        ![t].arg_state =
                            Some(procs[p].player_states_history[
                                     Len(procs[p].player_states_history)])],
                     t, "persist_update_match_stats")
          ELSE Goto([tasks EXCEPT ![t].wlive = FALSE, ![t].wstates = <<>>],
                    t, "clear_history")
    /\ UNCHANGED <<now, accounts, client, startup, store, manager, procs, heap, arrivals, log>>

batch_get_weapon_id_by_name(t) ==
    /\ At(t, "get_weapon_id_by_name")
    /\ IF get_weapon_id_by_name(WeaponHistory(t)[tasks[t].i][tasks[t].j].name)
       THEN Await(tasks, t, "player_weapon_exists")
       ELSE Goto([tasks EXCEPT ![t].j = @ + 1], t, "batch_create_player_weapons")
    /\ UNCHANGED <<now, accounts, client, startup, store, manager, procs, heap, arrivals, log>>

batch_player_weapon_exists(t) ==
    /\ At(t, "player_weapon_exists")
    /\ LET p == tasks[t].p
           w == WeaponHistory(t)[tasks[t].i][tasks[t].j]
           seen == player_weapon_exists(p, tasks[t].round_number, procs[p].owner_steam_id,
                                        w.name, w.state_timestamp)
       IN Goto([tasks EXCEPT ![t].j = @ + 1,
                             ![t].to_create = IF seen THEN @ ELSE @ \cup {tasks[t].j}],
               t, "batch_create_player_weapons")
    /\ UNCHANGED <<now, accounts, client, startup, store, manager, procs, heap, arrivals, log>>

create_player_weapon_states(t) ==
    /\ At(t, "create_player_weapon_states")
    /\ LET p == tasks[t].p
       IN pw' = insert_player_weapons(pw, p, tasks[t].round_number, procs[p].owner_steam_id,
                                      WeaponHistory(t)[tasks[t].i], tasks[t].to_create)
    /\ Goto([tasks EXCEPT ![t].i = @ + 1, ![t].j = 1, ![t].to_create = {}],
            t, "batch_create_player_weapons")
    /\ UNCHANGED <<now, accounts, client, startup, matches, rounds, prs, pms, manager,
                   procs, heap, arrivals, log>>

persist_update_match_stats(t) ==
    /\ At(t, "persist_update_match_stats")
    /\ pms' = update_player_match_stats(tasks[t].p, tasks[t].arg_state[1])
    /\ Goto(tasks, t, "clear_history")
    /\ UNCHANGED <<now, accounts, client, startup, matches, rounds, prs, pw, manager,
                   procs, heap, arrivals, log>>

\* both histories are rebound to new empty lists; a batch of another coroutine
\* that iterates the old list objects keeps them
Detach(tk, p, t) ==
    [u \in DOMAIN tk |->
        IF u # t /\ tk[u].p = p
        THEN [tk[u] EXCEPT
                !.pstates = IF tk[u].plive THEN procs[p].player_states_history ELSE @,
                !.plive = FALSE,
                !.wstates = IF tk[u].wlive THEN procs[p].weapon_states_history ELSE @,
                !.wlive = FALSE]
        ELSE tk[u]]

clear_history(t) ==
    /\ At(t, "clear_history")
    /\ LET p == tasks[t].p
       IN /\ procs' = [procs EXCEPT ![p].player_states_history = <<>>,
                                    ![p].weapon_states_history = <<>>]
          /\ ReturnFromPersist(Detach(tasks, p, t), t)
    /\ UNCHANGED <<now, accounts, client, startup, store, manager, heap, arrivals, log>>

\* ------------------------------------------------------------------------
\* Task _update_round_winner(round_number, winning_team, win_condition)
\* ------------------------------------------------------------------------
_update_round_winner(t) ==
    /\ At(t, "_update_round_winner")
    /\ Await(tasks, t, "winner_round_exists")
    /\ UNCHANGED <<now, accounts, client, startup, store, manager, procs, heap, arrivals, log>>

winner_round_exists(t) ==
    /\ At(t, "winner_round_exists")
    /\ LET p == tasks[t].p
       IN IF round_exists(p, tasks[t].round_number)
          THEN Await(tasks, t, "winner_update")
          ELSE Await([tasks EXCEPT ![t].arg_ts = IF procs[p].match_state # Nothing
                                                 THEN procs[p].match_state[1].timestamp
                                                 ELSE now],
                     t, "winner_create_round")
    /\ UNCHANGED <<now, accounts, client, startup, store, manager, procs, heap, arrivals, log>>

winner_update(t) ==
    /\ At(t, "winner_update")
    /\ rounds' = update_round_winner(tasks[t].p, tasks[t].round_number,
                                     tasks[t].winning_team, tasks[t].win_condition)
    /\ Finish(tasks, t)
    /\ UNCHANGED <<now, accounts, client, startup, matches, prs, pw, pms, manager, procs,
                   heap, arrivals, log>>

winner_create_round(t) ==
    /\ At(t, "winner_create_round")
    /\ rounds' = create_round(tasks[t].p, tasks[t].round_number, "over",
                              tasks[t].winning_team, tasks[t].win_condition, tasks[t].arg_ts)
    /\ Finish(tasks, t)
    /\ UNCHANGED <<now, accounts, client, startup, matches, prs, pw, pms, manager, procs,
                   heap, arrivals, log>>

\* ------------------------------------------------------------------------
\* Task _handle_match_completion
\* ------------------------------------------------------------------------
\* fault model: a completion that does not test is_completed
NeverCompleted(proc) == FALSE

\* `if self.is_completed: return`, under persistence_lock
AlreadyCompleted(proc) == proc.is_completed

_handle_match_completion(t) ==
    /\ At(t, "_handle_match_completion")
    /\ LET p == tasks[t].p
       IN IF AlreadyCompleted(procs[p])
          THEN /\ procs[p].persistence_lock = Free
               /\ Finish(tasks, t)
               /\ procs' = Locked(procs, p, t)
          ELSE /\ procs[p].persistence_lock = Free
               /\ procs' = Locked([procs EXCEPT ![p].is_completed = TRUE], p, t)
               /\ Goto([tasks EXCEPT
                          ![t].ct_score = procs[p].match_state[1].team_ct_score,
                          ![t].t_score = procs[p].match_state[1].team_t_score,
                          ![t].round_number = 1,
                          ![t].last = procs[p].current_round,
                          ![t].caller = "_handle_match_completion"],
                       t, "_handle_match_completion_loop")
    /\ UNCHANGED <<now, accounts, client, startup, store, manager, heap, arrivals, log>>

\* the loop over range(1, current_round + 1), then complete_match
_handle_match_completion_loop(t) ==
    /\ At(t, "_handle_match_completion_loop")
    /\ LET p == tasks[t].p
           round_num == tasks[t].round_number
       IN IF round_num <= tasks[t].last
          THEN IF Unclaimed(procs[p], round_num)
               THEN /\ procs[p].persistence_lock = Free
                    /\ procs' = Locked([procs EXCEPT
                                           ![p].rounds_persisted = @ \cup {round_num}], p, t)
                    /\ Goto(tasks, t, "_persist_round_data")
               ELSE /\ procs[p].persistence_lock = Free
                    /\ procs' = Locked(procs, p, t)
                    /\ Goto([tasks EXCEPT ![t].round_number = @ + 1],
                            t, "_handle_match_completion_loop")
          ELSE /\ UNCHANGED procs
               /\ Await([tasks EXCEPT ![t].arg_ts = procs[p].match_state[1].timestamp],
                        t, "complete_match")
    /\ UNCHANGED <<now, accounts, client, startup, store, manager, heap, arrivals, log>>

completion_complete_match(t) ==
    /\ At(t, "complete_match")
    /\ matches' = complete_match(tasks[t].p, tasks[t].ct_score, tasks[t].t_score,
                                 tasks[t].ct_score + tasks[t].t_score, tasks[t].arg_ts)
    /\ log' = [log EXCEPT !.complete_match_calls = @ \cup {tasks[t].p}]
    /\ Finish(tasks, t)
    /\ UNCHANGED <<now, accounts, client, startup, rounds, prs, pw, pms, manager, procs,
                   heap, arrivals>>

\* ------------------------------------------------------------------------
\* Specification
\* ------------------------------------------------------------------------
Next ==
    \/ Receive
    \/ handle_gsi_payload_rejects
    \/ \E t \in DOMAIN tasks : route_payload(t)
    \/ \E t \in DOMAIN tasks : handle_payload(t)
    \/ \E t \in DOMAIN tasks : ensure_match_exists(t)
    \/ \E t \in DOMAIN tasks : ensure_match_create(t)
    \/ \E t \in DOMAIN tasks : handle_match_update(t)
    \/ \E t \in DOMAIN tasks : set_match_state(t)
    \/ \E t \in DOMAIN tasks : _handle_round_transition(t)
    \/ \E t \in DOMAIN tasks : _complete_round_exists(t)
    \/ \E t \in DOMAIN tasks : _complete_round_update(t)
    \/ \E t \in DOMAIN tasks : _complete_round_create(t)
    \/ \E t \in DOMAIN tasks : _handle_round_transition_2(t)
    \/ \E t \in DOMAIN tasks : transition_round_exists(t)
    \/ \E t \in DOMAIN tasks : ensure_round_exists(t)
    \/ \E t \in DOMAIN tasks : ensure_round_create(t)
    \/ \E t \in DOMAIN tasks : set_round_state(t)
    \/ \E t \in DOMAIN tasks : _handle_player_data(t)
    \/ \E t \in DOMAIN tasks : player_update_match_stats(t)
    \/ \E t \in DOMAIN tasks : _handle_weapon_data(t)
    \/ \E t \in DOMAIN tasks : _cleanup_completed_matches(t)
    \/ \E t \in DOMAIN tasks : _persist_round_data(t)
    \/ \E t \in DOMAIN tasks : persist_round_exists(t)
    \/ \E t \in DOMAIN tasks : persist_create_round(t)
    \/ \E t \in DOMAIN tasks : batch_create_player_states(t)
    \/ \E t \in DOMAIN tasks : batch_player_round_state_exists(t)
    \/ \E t \in DOMAIN tasks : create_player_round_state(t)
    \/ \E t \in DOMAIN tasks : _create_player_round_state_sync(t)
    \/ \E t \in DOMAIN tasks : batch_create_player_weapons(t)
    \/ \E t \in DOMAIN tasks : batch_get_weapon_id_by_name(t)
    \/ \E t \in DOMAIN tasks : batch_player_weapon_exists(t)
    \/ \E t \in DOMAIN tasks : create_player_weapon_states(t)
    \/ \E t \in DOMAIN tasks : persist_update_match_stats(t)
    \/ \E t \in DOMAIN tasks : clear_history(t)
    \/ \E t \in DOMAIN tasks : _update_round_winner(t)
    \/ \E t \in DOMAIN tasks : winner_round_exists(t)
    \/ \E t \in DOMAIN tasks : winner_update(t)
    \/ \E t \in DOMAIN tasks : winner_create_round(t)
    \/ \E t \in DOMAIN tasks : _handle_match_completion(t)
    \/ \E t \in DOMAIN tasks : _handle_match_completion_loop(t)
    \/ \E t \in DOMAIN tasks : completion_complete_match(t)

Spec == Init /\ [][Next]_vars

\* the same server, followed further on the snapshots that end a match
CompletionInit == InitOf({Rematch})

CompletionSpec == CompletionInit /\ [][Next]_vars

\* ------------------------------------------------------------------------
\* Start-up of the server and the life of its token cache: main(),
\* TokenCache and GSIServer._authenticate_payload.  Snapshot processing is
\* at rest in this specification; the clock is shared.
\* ------------------------------------------------------------------------
processing == <<accounts, alphabet, ticks, matches, rounds, prs, pw, pms, match_processors,
                procs, heap, tasks, ready, dbq, running, received, overlapped, log, lock>>

\* tokens a request may present: none, never issued, issued, the legacy one
AuthTokens ==
    PresentedTokens \cup {IssuedTokens[k] : k \in DOMAIN IssuedTokens} \cup {LegacyToken}

\* one record of the logger: the message and the value interpolated into it
Logged(level, event, text) == [level |-> level, event |-> event, text |-> text]

CacheInit ==
    /\ now = 0
    /\ alphabet = {Live1}
    /\ ticks = {1}
    /\ accounts = {Owner}
    /\ matches = <<>>
    /\ rounds = {}
    /\ prs = {}
    /\ pw = {}
    /\ pms = {}
    /\ match_processors = {}
    /\ lock = Free
    /\ procs = <<>>
    /\ heap = <<>>
    /\ tasks = <<>>
    /\ ready = <<>>
    /\ dbq = <<>>
    /\ running = 0
    /\ received = 0
    /\ overlapped = 0
    /\ log = NewLog
    /\ token_cache = NewTokenCache
    /\ auth_tokens = OwnerToken(1)
    /\ \E legacy \in {None, LegacyToken} :
          server = [main |-> "register_legacy_token", legacy |-> legacy, wake |-> 0,
                    caller |-> None, issued |-> 1,
                    waiting |-> <<>>, loading |-> {}]
    /\ server_log = {}

\* main: `if legacy_token: await server.token_cache.register_legacy_token(...)`
register_legacy_token ==
    /\ server.main = "register_legacy_token"
    /\ LET token == server.legacy
           registers == token # None /\ ~token_in_cache(token_cache, token)
       IN /\ token_cache' =
                IF registers
                THEN [token_cache EXCEPT !.tokens = Put(@, token, LegacySteamId)]
                ELSE token_cache
          /\ server_log' =
                server_log
                \cup (IF token # None
                      THEN {Logged("warning", "Legacy fallback token configured", <<>>)}
                      ELSE {})
                \cup (IF registers
                      THEN {Logged("warning", "Legacy fallback token registered", <<>>)}
                      ELSE {})
    /\ server' = [server EXCEPT !.main = "initialize"]
    /\ UNCHANGED <<now, auth_tokens, processing>>

\* start(): `await self.token_cache.initialize()` takes the lock and issues
\* the read
initialize ==
    /\ server.main = "initialize"
    /\ cache_lock_free(token_cache)
    /\ ~token_cache.initialized
    /\ token_cache' = [token_cache EXCEPT !.lock = "initialize"]
    /\ server' = [server EXCEPT !.loading = @ \cup {"initialize"}]
    /\ UNCHANGED <<now, auth_tokens, server_log, processing>>

\* the store read of initialize or refresh returns the rows or raises
_get_all_tokens ==
    /\ token_cache.lock # None
    /\ token_cache.fetched = NotFetched
    /\ \E result \in {Fetched(auth_tokens), FetchFailed} :
          token_cache' = [token_cache EXCEPT !.fetched = result]
    /\ UNCHANGED <<now, auth_tokens, server, server_log, processing>>

\* the try and except blocks of initialize
initialize_try(cache, time) ==
    [cache EXCEPT !.tokens = cache.fetched.tokens, !.last_refresh = time,
                  !.initialized = TRUE]

initialize_except(cache) == [cache EXCEPT !.tokens = NoTokens, !.initialized = TRUE]

\* the try and except blocks of refresh
refresh_try(cache, time) ==
    [cache EXCEPT !.tokens = cache.fetched.tokens, !.last_refresh = time]

ClearsOnFailure(cache) == [cache EXCEPT !.tokens = NoTokens]

refresh_except(cache) == cache

Release(cache) == [cache EXCEPT !.lock = None, !.fetched = NotFetched]

\* initialize resumes with the result of the read; start() goes on to serve
\* and _periodic_cache_refresh begins its first sleep
initialize_resumes ==
    /\ token_cache.lock = "initialize"
    /\ token_cache.fetched # NotFetched
    /\ LET ok == token_cache.fetched.state = "ok"
       IN /\ token_cache' = Release(IF ok THEN initialize_try(token_cache, now)
                                    ELSE initialize_except(token_cache))
          /\ server_log' = server_log \cup
                {IF ok THEN Logged("info", "Token cache initialized", <<>>)
                 ELSE Logged("error", "Error initializing token cache", <<>>)}
    /\ server' = [server EXCEPT !.main = "serving", !.wake = now + RefreshInterval,
                                !.loading = @ \ {"initialize"}]
    /\ UNCHANGED <<now, auth_tokens, processing>>

\* _periodic_cache_refresh: the sleep is over, refresh takes the lock
_periodic_cache_refresh ==
    /\ server.main = "serving"
    /\ now >= server.wake
    /\ cache_lock_free(token_cache)
    /\ server.waiting = <<>>
    /\ token_cache' = [token_cache EXCEPT !.lock = "refresh"]
    /\ server' = [server EXCEPT !.caller = "periodic", !.loading = @ \cup {"periodic"}]
    /\ UNCHANGED <<now, auth_tokens, server_log, processing>>

\* _authenticate_payload: the log record of a request that is refused
Refused(token) ==
    IF token = None THEN Logged("warning", "Payload missing auth token", <<>>)
    ELSE Logged("warning", "Invalid auth token", Text(token))

\* _authenticate_payload and is_valid_token for one request: accepted from
\* the cache, refused, or suspended in a refresh when the cache is older
\* than the refresh interval; the refresh starts its load at once or waits
\* for the lock behind the coroutine that holds it
is_valid_token ==
    /\ server.main = "serving"
    /\ \E token \in AuthTokens :
          IF token = None
          THEN /\ server_log' = server_log \cup {Refused(token)}
               /\ UNCHANGED <<token_cache, server>>
          ELSE IF token_in_cache(token_cache, token)
          THEN UNCHANGED <<token_cache, server, server_log>>
          ELSE IF cache_outdated(token_cache, now)
          THEN IF cache_lock_free(token_cache) /\ server.waiting = <<>>
               THEN /\ token_cache' = [token_cache EXCEPT !.lock = "refresh"]
                    /\ server' = [server EXCEPT !.caller = token,
                                                !.loading = @ \cup {token}]
                    /\ UNCHANGED server_log
               ELSE /\ Len(server.waiting) < MaxWaiting
                    /\ server' = [server EXCEPT !.waiting = Append(@, token)]
                    /\ UNCHANGED <<token_cache, server_log>>
          ELSE /\ server_log' = server_log \cup {Refused(token)}
               /\ UNCHANGED <<token_cache, server>>
    /\ UNCHANGED <<now, auth_tokens, processing>>

\* refresh of a request that waited in `async with self.lock`: the lock is
\* handed to the oldest waiter, which starts its load
refresh_acquire ==
    /\ server.waiting # <<>>
    /\ cache_lock_free(token_cache)
    /\ token_cache' = [token_cache EXCEPT !.lock = "refresh"]
    /\ server' = [server EXCEPT !.caller = Head(server.waiting),
                                !.waiting = Tail(@),
                                !.loading = @ \cup {Head(server.waiting)}]
    /\ UNCHANGED <<now, auth_tokens, server_log, processing>>

\* refresh resumes with the result of the read and releases the lock; a
\* request that waited for it gets `token in self.tokens`
refresh ==
    /\ token_cache.lock = "refresh"
    /\ token_cache.fetched # NotFetched
    /\ LET ok == token_cache.fetched.state = "ok"
           cache == Release(IF ok THEN refresh_try(token_cache, now)
                            ELSE refresh_except(token_cache))
       IN /\ token_cache' = cache
          /\ server_log' =
                server_log
                \cup {IF ok THEN Logged("info", "Token cache refreshed", <<>>)
                      ELSE Logged("error", "Error refreshing token cache", <<>>)}
                \cup (IF server.caller # "periodic" /\ ~token_in_cache(cache, server.caller)
                      THEN {Refused(server.caller)}
                      ELSE {})
          /\ server' = [server EXCEPT
                           !.caller = None,
                           !.wake = IF server.caller = "periodic"
                                    THEN now + RefreshInterval ELSE @,
                           !.loading = @ \ {server.caller}]
    /\ UNCHANGED <<now, auth_tokens, processing>>

\* manage.py update_auth_tokens: every account gets a new auth_token
update_auth_tokens ==
    /\ server.issued < Len(IssuedTokens)
    /\ auth_tokens' = OwnerToken(server.issued + 1)
    /\ server' = [server EXCEPT !.issued = @ + 1]
    /\ UNCHANGED <<now, token_cache, server_log, processing>>

\* time passes while the server runs: long enough for the periodic sleep to
\* end, or a second more, which makes the cache older than the interval
Elapse ==
    /\ server.main = "serving"
    /\ \E dt \in {RefreshInterval, RefreshInterval + 1} :
          /\ now + dt <= MaxPeriods * (RefreshInterval + 1)
          /\ now' = now + dt
    /\ UNCHANGED <<startup, processing>>

CacheNext ==
    \/ register_legacy_token
    \/ initialize
    \/ _get_all_tokens
    \/ initialize_resumes
    \/ _periodic_cache_refresh
    \/ is_valid_token
    \/ refresh_acquire
    \/ refresh
    \/ update_auth_tokens
    \/ Elapse

CacheSpec == CacheInit /\ [][CacheNext]_vars

\* ------------------------------------------------------------------------
\* Properties
\* ------------------------------------------------------------------------
\* every coroutine has returned: all received snapshots are fully processed
Quiescent == DOMAIN tasks = {}

\* the snapshots the processor p handled past the phase gate
NominalEntries(p) ==
    { e \in log.snapshots :
        e.p = p /\ match_phase_nominal(extract_match_state(e.payload, e.ts)) }

EntryRound(e) == AdjustRound(e.payload.wround)

RoundRows(p, n) == { r \in rounds : r.match_id = p /\ r.round_number = n }

RoundNumbers(table, p) == { r.round_number : r \in { x \in table : x.match_id = p } }

\* coroutine t took the step
Stepped(t) == t \notin DOMAIN tasks' \/ tasks'[t] # tasks[t]

\* C1: a processor issues at most one create_match call for its match id,
\* whatever the interleaving of the handlers of its snapshots.
C1_AtMostOneCreateMatch ==
    \A p \in DOMAIN log.create_match_calls : log.create_match_calls[p] <= 1

\* C2: once the snapshots of a match are fully processed and its completion
\* has run, there is exactly one Round row for every round number that a
\* nominal snapshot of the match carried.
C2_ExactlyOneRoundRow ==
    Quiescent =>
        \A p \in log.complete_match_calls :
            \A e \in NominalEntries(p) : Cardinality(RoundRows(p, EntryRound(e))) = 1

\* the snapshots of the match of row r that reported round r.round_number as
\* over with a winner
ReportedWinner(r) ==
    { e \in NominalEntries(r.match_id) :
        /\ EntryRound(e) = r.round_number
        /\ e.payload.rphase = "over"
        /\ e.payload.win # None }

\* C3: once the snapshots are fully processed, a Round row has a winner and a
\* win condition iff some snapshot carried its round number with phase over
\* and a winner, and the stored values are those of such a snapshot.
C3_WinnerIffReported ==
    Quiescent =>
        \A r \in rounds :
            /\ (r.winning_team # None /\ r.win_condition # None) <=> ReportedWinner(r) # {}
            /\ r.winning_team # None =>
                 \E e \in ReportedWinner(r) :
                    /\ r.winning_team = e.payload.win
                    /\ r.win_condition =
                         WinCondition(e.payload.rphase, e.payload.win, e.payload.bomb)

\* C4: once the handler of a gameover snapshot has returned, no Round row is
\* added for that processor's match.
C4_NoRoundAfterGameover ==
    [][\A p \in log.gameover_handled :
          RoundNumbers(rounds', p) \subseteq RoundNumbers(rounds, p)]_vars

\* C5: when every coroutine has returned, complete_match has been executed
\* for each processor that handled a gameover snapshot, and the Match row is
\* closed with the scores (ct, t) of such a snapshot and ct + t rounds played.
C5_GameoverCompletes ==
    Quiescent =>
        \A p \in log.gameover_handled :
            /\ p \in log.complete_match_calls
            /\ p \in DOMAIN matches
            /\ matches[p].end_timestamp # NoTs
            /\ \E e \in NominalEntries(p) :
                  /\ e.payload.mphase = "gameover"
                  /\ matches[p].team_ct_score = e.payload.ct
                  /\ matches[p].team_t_score = e.payload.t
                  /\ matches[p].rounds_played = e.payload.ct + e.payload.t

\* C6: a snapshot received after a complete_match (all snapshots have the
\* same base match key) adds no Match row and no Round row, neither in its
\* handler nor in a task the handler starts.
C6_LaterSnapshotIgnored ==
    [][\A t \in DOMAIN tasks :
          (tasks[t].late /\ Stepped(t)) =>
              /\ DOMAIN matches' = DOMAIN matches
              /\ \A p \in DOMAIN procs' :
                    RoundNumbers(rounds', p) \subseteq RoundNumbers(rounds, p)]_vars

\* timestamps the Extractor assigned to the owner's snapshots of round n
Assigned(p, n) ==
    { e.ts : e \in { x \in NominalEntries(p) :
                        x.payload.player = Owner /\ EntryRound(x) = n } }

Persisted(p, n) ==
    { r.state_timestamp :
        r \in { x \in prs : x.match_id = p /\ x.round_number = n /\ x.steam_account = Owner } }

\* C7: for a registered owner, once the snapshots of a completed match are
\* fully processed, the state timestamps stored for (match, round, owner) are
\* exactly the timestamps of the owner snapshots received for that round.
C7_TimestampsMatch ==
    (Quiescent /\ Owner \in accounts) =>
        \A p \in log.complete_match_calls :
            \A n \in 1..MaxRound : Persisted(p, n) = Assigned(p, n)

C9_SpectatorFrame ==
    /\ \A p \in DOMAIN procs :
          /\ \A k \in DOMAIN procs[p].player_states_history :
                procs[p].player_states_history[k].steam_id # Spectated
          /\ \A k \in DOMAIN procs[p].weapon_states_history :
                \A j \in DOMAIN procs[p].weapon_states_history[k] :
                   procs[p].weapon_states_history[k][j].steam_id # Spectated
    /\ \A r \in prs \cup pw \cup pms : r.steam_account # Spectated
    /\ \A t \in DOMAIN tasks :
          (/\ tasks[t].pc = "_cleanup_completed_matches"
           /\ running = t
           /\ tasks[t].payload.player = Spectated
           /\ match_phase_nominal(TaskMatchState(t))
           /\ tasks[t].rs # 0) =>
              /\ procs[tasks[t].p].round_state = tasks[t].rs
              /\ procs[tasks[t].p].match_state # Nothing
              /\ procs[tasks[t].p].current_round = heap[tasks[t].rs].round_number

\* the handler of a spectator snapshot of a registered player returns after a
\* round transition that flushed the owner's buffered states
C9_Witness ==
    /\ Spectated \in accounts
    /\ prs # {}
    /\ \E t \in DOMAIN tasks :
          /\ tasks[t].pc = "_cleanup_completed_matches"
          /\ running = t
          /\ tasks[t].payload.player = Spectated
          /\ tasks[t].new_round = 2
          /\ procs[tasks[t].p].player_states_history = <<>>

\* C10: a snapshot with player.activity 'menu' is never routed to a
\* processor, so every Match row belongs to a processor that received a
\* snapshot with another activity.
C10_MenuNeverCreatesMatch ==
    /\ \A e \in log.snapshots : e.payload.activity = "menu" => e.p = 0
    /\ \A p \in DOMAIN matches :
          \E e \in log.snapshots : e.p = p /\ e.payload.activity # "menu"

\* the fields of processor p that a handler reads, with the RoundState object
\* that round_state refers to
ProcessorView(prcs, h, p) ==
    [match_state |-> prcs[p].match_state,
     round_state |-> Deref(h, prcs[p].round_state),
     current_round |-> prcs[p].current_round,
     player_states_history |-> prcs[p].player_states_history,
     weapon_states_history |-> prcs[p].weapon_states_history,
     rounds_persisted |-> prcs[p].rounds_persisted,
     match_persisted |-> prcs[p].match_persisted]

\* coroutine t handles a snapshot whose match phase is unknown or warmup
HandlesNonNominal(t) ==
    /\ tasks[t].pc = "handle_payload"
    /\ Stepped(t)
    /\ ~match_phase_nominal(extract_match_state(tasks[t].payload, now))

\* C11: handling a snapshot whose match phase is unknown or warmup issues no
\* persistence call, writes nothing to the store and leaves the processor's
\* match_state, round_state, current_round, history buffers and
\* rounds_persisted as they were.
C11_NonNominalFrame ==
    [][\A t \in DOMAIN tasks :
          HandlesNonNominal(t) =>
              /\ store' = store
              /\ dbq' = dbq
              /\ ProcessorView(procs', heap', tasks[t].p)
                   = ProcessorView(procs, heap, tasks[t].p)]_vars

\* processor p has received no snapshot for more than the inactivity timeout
Idle(p) == now - procs[p].last_update_time > InactivityTimeout

\* coroutine t passes its snapshot to a processor
Routes(t) ==
    /\ tasks[t].pc = "route_payload"
    /\ Stepped(t)
    /\ t \in DOMAIN tasks'
    /\ tasks'[t].p # 0

\* C12: a snapshot that arrives when the processor of its base key has been
\* idle for more than 600 s is not handled by that processor: the processor
\* is retired and the snapshot gets a new processor (a new match id).
C12_IdleProcessorRetired ==
    [][\A t \in DOMAIN tasks :
          Routes(t) =>
              \A p \in match_processors :
                  Idle(p) => /\ tasks'[t].p # p
                             /\ p \notin match_processors'
                             /\ Len(procs') = Len(procs) + 1]_vars

\* C13: every Match row has team_ct_score + team_t_score <= rounds_played,
\* and a row that complete_match has closed keeps rounds_played equal to
\* that sum.
C13_ScoresWithinRounds ==
    \A m \in DOMAIN matches :
        /\ matches[m].team_ct_score + matches[m].team_t_score <= matches[m].rounds_played
        /\ matches[m].end_timestamp # NoTs =>
              matches[m].rounds_played
                  = matches[m].team_ct_score + matches[m].team_t_score

\* e2 is the same snapshot as e1, received again by the same processor with
\* no other snapshot in between
Replay(e1, e2) ==
    /\ e1.p # 0
    /\ e1.p = e2.p
    /\ e1.payload = e2.payload
    /\ e1.ts < e2.ts
    /\ ~\E e3 \in log.snapshots :
          /\ e3.p = e1.p
          /\ e3.payload # e1.payload
          /\ e1.ts <= e3.ts
          /\ e3.ts <= e2.ts

\* the PlayerRoundState and PlayerWeapon rows of match p that carry the
\* timestamp of snapshot e
RowsOf(e) ==
    { r \in prs \cup pw : r.match_id = e.p /\ r.state_timestamp = e.ts }

\* C14: a snapshot that is received twice back to back leaves the rows that
\* processing it once leaves: the store never holds rows of the snapshot and
\* further rows of its replay.
C14_ReplayIdempotent ==
    \A e1 \in log.snapshots : \A e2 \in log.snapshots :
        Replay(e1, e2) => (RowsOf(e1) = {} \/ RowsOf(e2) = {})

\* the steps of _complete_round and _persist_round_data, which write the rows
\* of the round tasks[t].round_number
PersistSteps ==
    {"_complete_round_exists", "_complete_round_update", "_complete_round_create",
     "_persist_round_data", "persist_round_exists", "persist_create_round",
     "batch_create_player_states", "player_round_state_exists",
     "create_player_round_state", "_create_player_round_state_sync",
     "batch_create_player_weapons", "get_weapon_id_by_name",
     "player_weapon_exists", "create_player_weapon_states",
     "persist_update_match_stats", "clear_history"}

Persisting(t, p, n) ==
    /\ tasks[t].p = p
    /\ tasks[t].round_number = n
    /\ tasks[t].pc \in PersistSteps

\* coroutine t is at the point where the round transition or the completion
\* flush decides whether to persist round n of processor p
AboutToClaim(t, p, n) ==
    /\ tasks[t].p = p
    /\ tasks[t].round_number = n
    /\ \/ tasks[t].pc = "_handle_round_transition"
       \/ tasks[t].pc = "_handle_match_completion_loop" /\ n <= tasks[t].last

\* C15: a round is persisted once.  A round stays claimed, the round
\* transition or completion flush that finds it claimed does not persist it a
\* second time, and no two coroutines persist one round at the same time; so
\* the second claim adds no Round, PlayerRoundState or PlayerWeapon row.
C15_PersistedOnce ==
    /\ [][\A p \in DOMAIN procs :
             procs[p].rounds_persisted \subseteq procs'[p].rounds_persisted]_vars
    /\ [][\A t \in DOMAIN tasks : \A p \in DOMAIN procs :
             \A n \in procs[p].rounds_persisted :
                (AboutToClaim(t, p, n) /\ Stepped(t)) =>
                    /\ store' = store
                    /\ t \in DOMAIN tasks' => tasks'[t].pc \notin PersistSteps]_vars
    /\ [](\A t1 \in DOMAIN tasks : \A t2 \in DOMAIN tasks :
             (/\ tasks[t1].pc \in PersistSteps
              /\ Persisting(t2, tasks[t1].p, tasks[t1].round_number)) => t1 = t2)

\* the completion flush reaches a round that the round transition has
\* claimed and whose player states are stored
C15_Witness ==
    \E t \in DOMAIN tasks :
        /\ running = t
        /\ tasks[t].pc = "_handle_match_completion_loop"
        /\ tasks[t].round_number <= tasks[t].last
        /\ tasks[t].round_number \in procs[tasks[t].p].rounds_persisted
        /\ \E r \in prs : r.match_id = tasks[t].p /\ r.round_number = tasks[t].round_number

\* C16: a request without auth.token or with a token that is not in the
\* Token Cache is answered 401 and is not handed to the Match Manager: every
\* handler serves a request with a cached token, and the step that answers
\* such a request changes no processor, no coroutine and no row.
C16_UnauthorizedRejected ==
    /\ [](\A t \in DOMAIN tasks :
             tasks[t].kind = "handle_payload" => tasks[t].token \in CachedTokens)
    /\ [](\A r \in log.responses :
             (r.request.json /\ r.request.token \notin CachedTokens) => r.status = 401)
    /\ [][\A r \in log'.responses \ log.responses :
             r.request.token \notin CachedTokens =>
                 /\ store' = store
                 /\ procs' = procs
                 /\ match_processors' = match_processors
                 /\ heap' = heap
                 /\ tasks' = tasks]_vars

\* a request without token and one with an unknown token were answered
\* while a match of an authenticated client is recorded
C16_Witness ==
    /\ [request |-> Request(TRUE, None, "object"), status |-> 401] \in log.responses
    /\ [request |-> Request(TRUE, "unknown", "object"), status |-> 401] \in log.responses
    /\ matches # <<>>

\* C17: every authenticated JSON request is answered 200, 400 answers
\* exactly the bodies that are not JSON, 401 exactly the JSON bodies that do
\* not authenticate, and no request is answered 500, whatever the shape of
\* the decoded body.
C17_StatusCodes ==
    \A r \in log.responses :
        /\ r.status \in {200, 400, 401}
        /\ (r.request.json /\ r.request.token \in CachedTokens) => r.status = 200
        /\ r.status = 400 <=> ~r.request.json
        /\ r.status = 401 <=> (r.request.json /\ r.request.token \notin CachedTokens)

\* coroutine t has entered handle_payload of processor p and has not
\* returned from it
InHandlePayload(t, p) ==
    /\ tasks[t].kind = "handle_payload"
    /\ tasks[t].p = p
    /\ tasks[t].pc \notin {"route_payload", "handle_payload", "_cleanup_completed_matches"}

\* C18: for one processor at most one handle_payload invocation is in
\* progress: no second handler runs while the first is suspended in a
\* persistence call.
C18_OneHandlerPerProcessor ==
    \A p \in DOMAIN procs : \A t1 \in DOMAIN tasks : \A t2 \in DOMAIN tasks :
        (InHandlePayload(t1, p) /\ InHandlePayload(t2, p)) => t1 = t2

\* the order of the round phases
PhaseRank(phase) ==
    CASE phase = "freezetime" -> 1
      [] phase = "live" -> 2
      [] phase = "over" -> 3
      [] OTHER -> 0

\* C19: the phase of a stored Round row only moves forward in the order
\* freezetime, live, over, and a row has a winner or a win condition only
\* if its phase is over.
C19_RoundPhaseMonotonic ==
    /\ [](\A r \in rounds :
             (r.winning_team # None \/ r.win_condition # None) => r.phase = "over")
    /\ [][\A r \in rounds :
             \E r2 \in rounds' :
                /\ r2.match_id = r.match_id
                /\ r2.round_number = r.round_number
                /\ PhaseRank(r.phase) <= PhaseRank(r2.phase)]_vars

\* round 2 was created in freezetime, seen live and then closed with its
\* winner
C19_Witness ==
    /\ Quiescent
    /\ {[p |-> 1, payload |-> Freeze2, ts |-> 1], [p |-> 1, payload |-> Live2, ts |-> 2],
        [p |-> 1, payload |-> Over2, ts |-> 3]} \subseteq log.snapshots
    /\ \E r \in rounds : r.round_number = 2 /\ r.phase = "over" /\ r.winning_team = "T"


\* ------------------------------------------------------------------------
\* C20: for each (match_id, round_number, steam_account, weapon) series no
\* two PlayerWeapon rows share a state_timestamp, the weapon states of one
\* player and weapon are appended to weapon_states_history in strictly
\* increasing state_timestamp order, and every inserted row is later than
\* the rows its series already holds, whatever the order in which the
\* handlers of the match resume.
\* ------------------------------------------------------------------------
SameSeries(r, q) ==
    /\ r.match_id = q.match_id /\ r.round_number = q.round_number
    /\ r.steam_account = q.steam_account /\ r.weapon = q.weapon

BufferIncreasing(history) ==
    \A k \in DOMAIN history : \A l \in DOMAIN history :
        k < l =>
            \A a \in DOMAIN history[k] : \A b \in DOMAIN history[l] :
                (/\ history[k][a].name = history[l][b].name
                 /\ history[k][a].steam_id = history[l][b].steam_id)
                    => history[k][a].state_timestamp < history[l][b].state_timestamp

C20_WeaponSeriesIncreasing ==
    /\ [](\A r \in pw : \A q \in pw :
             (SameSeries(r, q) /\ r.state_timestamp = q.state_timestamp) => r = q)
    /\ [](\A p \in DOMAIN procs : BufferIncreasing(procs[p].weapon_states_history))
    /\ [][\A r \in pw' \ pw : \A q \in pw :
             SameSeries(r, q) => q.state_timestamp < r.state_timestamp]_vars


\* ------------------------------------------------------------------------
\* C21: if the store read inside TokenCache.refresh() fails, the token map
\* and last_refresh are left exactly as before the call, and every token
\* that was valid before the failed refresh is still accepted afterwards.
\* ------------------------------------------------------------------------
FailedRefresh ==
    /\ token_cache.lock = "refresh"
    /\ token_cache.fetched = FetchFailed
    /\ token_cache'.lock = None

C21_FailedRefreshKeepsCache ==
    [][FailedRefresh =>
          /\ token_cache'.tokens = token_cache.tokens
          /\ token_cache'.last_refresh = token_cache.last_refresh
          /\ \A token \in AuthTokens :
                token_in_cache(token_cache, token) => token_in_cache(token_cache', token)]_vars

C21_Witness ==
    /\ Logged("error", "Error refreshing token cache", <<>>) \in server_log
    /\ token_cache.lock = None
    /\ token_cache.tokens # NoTokens


\* ------------------------------------------------------------------------
\* C22: a legacy token registered at startup is accepted by is_valid_token,
\* mapped to the sentinel steam_id, in every later state of the server: after
\* the startup initialize() and after every periodic or on-miss refresh().
\* ------------------------------------------------------------------------
C22_LegacyTokenStaysValid ==
    [](server.main # "register_legacy_token" /\ server.legacy # None
          => /\ token_in_cache(token_cache, server.legacy)
             /\ token_cache.tokens[server.legacy] = LegacySteamId)


\* ------------------------------------------------------------------------
\* C25: no log record written by the ingest endpoint contains a full auth
\* token taken from a request or from configuration: on an authentication
\* failure at most the last four characters of the presented token are
\* logged.
\* ------------------------------------------------------------------------
LastFour(text) ==
    IF Len(text) <= 4 THEN text ELSE SubSeq(text, Len(text) - 3, Len(text))

C25_TokensRedactedInLogs ==
    [](\A record \in server_log :
          /\ \A token \in AuthTokens \ {None} : ~Contains(record.text, Text(token))
          /\ record.event = "Invalid auth token" =>
                \E token \in AuthTokens \ {None} : record.text = LastFour(Text(token)))


\* ------------------------------------------------------------------------
\* C23: for every snapshot the Extractor's MatchState.round and
\* RoundState.round_number both equal the wire map.round plus 1, so wire
\* round 0 is stored as round_number 1, and no Round row with round_number 0
\* is ever created.
\* ------------------------------------------------------------------------
C23_WireRoundPlusOne ==
    /\ [](\A payload \in alphabet :
             /\ extract_match_state(payload, now).round = payload.wround + 1
             /\ extract_round_state(payload, now).round_number = payload.wround + 1)
    /\ [](\A t \in DOMAIN tasks :
             tasks[t].rs # 0 =>
                Deref(heap, tasks[t].rs).round_number = tasks[t].payload.wround + 1)
    /\ [](\A r \in rounds : r.round_number # 0)


\* ------------------------------------------------------------------------
\* C24: there is at most one PlayerMatchStat row per (steam_account,
\* match_id); once every received snapshot of a match has been processed,
\* the counters of the row are those of the most recently received owner
\* snapshot; and no upsert, that of a round flush included, puts back the
\* counters of an older snapshot.  A row's state_timestamp names the
\* snapshot whose kills, deaths, assists, mvps and score it holds.
\* ------------------------------------------------------------------------
SameStat(r, q) == r.match_id = q.match_id /\ r.steam_account = q.steam_account

\* the owner snapshots the processor of a row handled past the phase gate
OwnerEntries(r) ==
    { e \in NominalEntries(r.match_id) : e.payload.player = r.steam_account }

C24_MatchStatsLastWriter ==
    /\ [](\A r \in pms : \A q \in pms : SameStat(r, q) => r = q)
    /\ [](Quiescent =>
             \A r \in pms : \A e \in OwnerEntries(r) : e.ts <= r.state_timestamp)
    /\ [][\A r \in pms' : \A q \in pms :
             SameStat(r, q) => q.state_timestamp <= r.state_timestamp]_vars


\* ------------------------------------------------------------------------
\* C26: whenever persisting a claimed round fails to write its data (a
\* persistence call returns falsy or raises, or the match row is not yet
\* persisted), the round number is removed from rounds_persisted and the
\* history buffers are kept, so that the next round transition or the
\* match-completion flush claims and persists that round again.
\* ------------------------------------------------------------------------
\* coroutine t takes the step on which _persist_round_data returns
PersistReturns(t) ==
    /\ tasks[t].pc \in {"_persist_round_data", "clear_history"}
    /\ Stepped(t)
    /\ t \in DOMAIN tasks' => tasks'[t].pc \notin PersistSteps

\* the store holds no row for the round, or refused a buffered player state
FailedToWrite(p, n) ==
    \/ ~procs[p].match_persisted
    \/ ~round_exists(p, n)
    \/ \E k \in DOMAIN procs[p].player_states_history :
          ~steam_account_fk(procs[p].player_states_history[k].steam_id)

C26_FailedPersistUnclaims ==
    [][\A t \in DOMAIN tasks :
          LET p == tasks[t].p
              n == tasks[t].round_number
          IN (/\ PersistReturns(t)
              /\ n \in procs[p].rounds_persisted
              /\ FailedToWrite(p, n))
                => /\ n \notin procs'[p].rounds_persisted
                   /\ procs'[p].player_states_history = procs[p].player_states_history
                   /\ procs'[p].weapon_states_history = procs[p].weapon_states_history]_vars


\* ------------------------------------------------------------------------
\* C27: if update_match fails for a snapshot that changed a tracked match
\* field, update_match is issued again on the next snapshot of that match,
\* even when that snapshot carries the same field values.
\* ------------------------------------------------------------------------
\* coroutine t takes the step of handle_payload that runs _handle_match_data
\* for a snapshot past the phase gate, on a processor whose match is persisted
HandlesMatchData(t) ==
    /\ tasks[t].pc = "handle_payload"
    /\ Stepped(t)
    /\ match_phase_nominal(extract_match_state(tasks[t].payload, now))
    /\ procs[tasks[t].p].match_persisted

C27_FailedUpdateRetried ==
    [][\A t \in DOMAIN tasks :
          (HandlesMatchData(t) /\ tasks[t].p \in log.failed_update)
             => /\ t \in DOMAIN tasks'
                /\ tasks'[t].pc = "update_match"]_vars


\* ------------------------------------------------------------------------
\* C28: the processor's persistence lock and the manager's lock are never
\* held while a persistence call or handle_payload is in progress: every
\* critical section only reads or updates in-memory fields, so no
\* interleaving of round transitions, match completion and cleanup can
\* deadlock: while a coroutine is alive, one of them can take a step.
\* ------------------------------------------------------------------------
InPersistenceCall(t) == \E k \in DOMAIN dbq : dbq[k] = t

LocksFree ==
    /\ lock = Free
    /\ \A p \in DOMAIN procs : procs[p].persistence_lock = Free

\* a step of the server that is not the arrival of a request
Advance == Next /\ received' = received

C28_NoLockAcrossAwait ==
    /\ [](\A t \in DOMAIN tasks :
             (InPersistenceCall(t) \/ \E p \in DOMAIN procs : InHandlePayload(t, p))
                => LocksFree)
    /\ [](DOMAIN tasks # {} => ENABLED Advance)

\* a round transition has claimed a round under the persistence lock and is
\* suspended in the first persistence call of _complete_round, while another
\* coroutine is in the completion flush
C28_Witness ==
    \E t \in DOMAIN tasks : \E u \in DOMAIN tasks :
        /\ InPersistenceCall(t)
        /\ tasks[t].pc = "_complete_round_exists"
        /\ tasks[u].kind = "_handle_match_completion"
        /\ tasks[u].p = tasks[t].p


\* ------------------------------------------------------------------------
\* C29: in every reachable state of the Match Manager no two processors in
\* the map have the same base_match_id, for every interleaving of concurrent
\* first snapshots of the same new match and of cleanup sweeps.  Map name,
\* mode and provider are fixed here, so every processor has the one
\* base_match_id and the map may hold one processor.
\* ------------------------------------------------------------------------
C29_OneProcessorPerMatch ==
    \A p \in match_processors : \A q \in match_processors : p = q

\* a cleanup sweep removed the first processor of the match while one of its
\* coroutines was in progress, and a later snapshot got a new processor
C29_Witness ==
    /\ Len(procs) = 2
    /\ match_processors = {2}
    /\ overlapped > 0
    /\ \E t \in DOMAIN tasks : \E u \in DOMAIN tasks :
          /\ tasks[t].p = 1
          /\ tasks[u].kind = "handle_payload" /\ tasks[u].p = 2


\* ------------------------------------------------------------------------
\* C30: for one processor is_completed changes from false to true at most
\* once and never back, and the body of match completion (the flush of
\* unclaimed rounds and the complete_match call) runs at most once, even
\* when _handle_match_completion is dispatched several times or
\* concurrently with a round transition.
\* ------------------------------------------------------------------------
\* coroutine t runs the body of _handle_match_completion
InCompletionBody(t) ==
    /\ tasks[t].kind = "_handle_match_completion"
    /\ tasks[t].pc # "_handle_match_completion"

C30_CompletedOnce ==
    /\ [][\A p \in DOMAIN procs : procs[p].is_completed => procs'[p].is_completed]_vars
    /\ [](\A t \in DOMAIN tasks : \A u \in DOMAIN tasks :
             (InCompletionBody(t) /\ InCompletionBody(u) /\ tasks[t].p = tasks[u].p)
                => t = u)
    /\ [](\A t \in DOMAIN tasks :
             InCompletionBody(t) =>
                /\ procs[tasks[t].p].is_completed
                /\ tasks[t].p \notin log.complete_match_calls)

\* a second _handle_match_completion was dispatched for a processor whose
\* first one runs the flush while a handler of the match is in progress
C30_Witness ==
    \E t \in DOMAIN tasks : \E u \in DOMAIN tasks : \E h \in DOMAIN tasks :
        /\ tasks[t].kind = "_handle_match_completion"
        /\ tasks[t].pc = "_handle_match_completion"
        /\ InCompletionBody(u)
        /\ tasks[u].p = tasks[t].p
        /\ tasks[h].p = tasks[t].p
        /\ tasks[h].kind # "_handle_match_completion"


\* ------------------------------------------------------------------------
\* C31: a round number is claimed (added to rounds_persisted while absent) by
\* at most one of the round-transition path and the match-completion flush,
\* and when match completion has finished every round from 1 to
\* current_round is in rounds_persisted.
\* ------------------------------------------------------------------------
\* the coroutines that add round n to rounds_persisted of processor p in
\* this step
Claimers(p, n) ==
    { t \in DOMAIN tasks : AboutToClaim(t, p, n) /\ Stepped(t) }

\* coroutine t returns from _handle_match_completion in this step
CompletionFinishes(t) ==
    /\ tasks[t].kind = "_handle_match_completion"
    /\ tasks[t].pc = "complete_match"
    /\ Stepped(t)

C31_ClaimedOnceAndAllFlushed ==
    /\ [][\A p \in DOMAIN procs :
             \A n \in procs'[p].rounds_persisted \ procs[p].rounds_persisted :
                Cardinality(Claimers(p, n)) = 1]_vars
    /\ [][\A p \in DOMAIN procs :
             procs[p].rounds_persisted \subseteq procs'[p].rounds_persisted]_vars
    /\ [][\A t \in DOMAIN tasks :
             CompletionFinishes(t) =>
                \A n \in 1..procs[tasks[t].p].current_round :
                    n \in procs[tasks[t].p].rounds_persisted]_vars


\* ------------------------------------------------------------------------
\* C32: after the round transition away from round r has finished,
\* player_states_history and weapon_states_history hold no state observed
\* during round r or earlier: the buffers are drained to the store and
\* cleared at every round end, also when the match row is not yet persisted.
\* ------------------------------------------------------------------------
\* _handle_round_transition of handler t returns in this step
TransitionReturns(t) ==
    /\ tasks[t].kind = "handle_payload"
    /\ tasks[t].pc \in {"_handle_round_transition_2", "transition_round_exists",
                        "ensure_round_exists", "ensure_round_create"}
    /\ t \in DOMAIN tasks'
    /\ tasks'[t].pc = "set_round_state"

\* the state stamped ts was extracted from a snapshot of round r or earlier
ObservedUpTo(p, ts, r) ==
    /\ \E e \in NominalEntries(p) : e.ts = ts
    /\ \A e \in NominalEntries(p) : e.ts = ts => EntryRound(e) <= r

C32_BuffersClearedAtRoundEnd ==
    [][\A t \in DOMAIN tasks :
          (TransitionReturns(t) /\ tasks[t].round_number > 0) =>
              LET p == tasks[t].p
                  r == tasks[t].round_number
              IN /\ \A i \in DOMAIN procs'[p].player_states_history :
                       ~ObservedUpTo(p, procs'[p].player_states_history[i].state_timestamp, r)
                 /\ \A i \in DOMAIN procs'[p].weapon_states_history :
                       \A j \in DOMAIN procs'[p].weapon_states_history[i] :
                          ~ObservedUpTo(p,
                              procs'[p].weapon_states_history[i][j].state_timestamp, r)]_vars


\* ------------------------------------------------------------------------
\* C33: whenever a processed nominal snapshot has round phase 'over' and a
\* win_team that is now known (also when win_team first appears in a later
\* snapshot than the one that changed the phase to 'over'), the processor
\* issues update_round_winner for that round, or create_round with the
\* winner if the row does not exist, as a consequence of that snapshot and
\* without waiting for the next round transition.
\* ------------------------------------------------------------------------
\* handler t executes set_round_state in this step with a round state that
\* is over and names a winner
SetsRoundOverWithWinner(t) ==
    /\ tasks[t].kind = "handle_payload"
    /\ tasks[t].pc = "set_round_state"
    /\ Stepped(t)
    /\ heap[tasks[t].rs].phase = "over"
    /\ heap[tasks[t].rs].win_team # None

\* the step starts an _update_round_winner task with the round and the winner
\* of the round state of handler t
IssuesWinner(t) ==
    \E c \in DOMAIN tasks' \ DOMAIN tasks :
        /\ tasks'[c].kind = "_update_round_winner"
        /\ tasks'[c].p = tasks[t].p
        /\ tasks'[c].round_number = heap[tasks[t].rs].round_number
        /\ tasks'[c].winning_team = heap[tasks[t].rs].win_team

C33_WinnerIssuedAtOnce ==
    [][\A t \in DOMAIN tasks : SetsRoundOverWithWinner(t) => IssuesWinner(t)]_vars


\* ------------------------------------------------------------------------
\* C34: when a round transition to new round n > 0 is handled with round
\* phase 'freezetime' or 'live' and the match is not completed, a Round row
\* for n exists afterwards with that phase and null winner and condition;
\* when is_completed is already true, the transition creates no row for n.
\* ------------------------------------------------------------------------
\* the round transition of handler t returns in this step from its step 3:
\* it read is_completed as false and the new round is active
InitializesRound(t) ==
    /\ TransitionReturns(t)
    /\ tasks[t].pc # "_handle_round_transition_2"

\* handler t reads is_completed as true in step 2 of its round transition
SkipsInitialization(t) ==
    /\ tasks[t].kind = "handle_payload"
    /\ tasks[t].pc = "_handle_round_transition_2"
    /\ Stepped(t)
    /\ procs[tasks[t].p].is_completed

C34_NewRoundRow ==
    /\ [][\A t \in DOMAIN tasks :
             InitializesRound(t) =>
                \E r \in rounds' :
                    /\ r.match_id = tasks[t].p
                    /\ r.round_number = tasks[t].new_round
                    /\ r.phase = heap[tasks[t].rs].phase
                    /\ r.winning_team = None
                    /\ r.win_condition = None]_vars
    /\ [][\A t \in DOMAIN tasks :
             SkipsInitialization(t) =>
                /\ rounds' = rounds
                /\ tasks'[t].pc = "set_round_state"]_vars


\* ------------------------------------------------------------------------
\* C35: is_valid_token(t) returns true when t is in the cache; when t is
\* missing and the cache is older than the refresh interval it reloads from
\* the store and checks t exactly once more; when t is missing and the cache
\* is not older than the interval it returns false without any store access.
\* Reloads are mutually exclusive: at most one store load is in progress at
\* a time.
\* ------------------------------------------------------------------------
RequestTokens == AuthTokens \ {None}

\* a request presenting `token` enters refresh() in this step: it starts its
\* load, or it queues for the lock
EntersRefresh(token) ==
    \/ server'.waiting = Append(server.waiting, token)
    \/ /\ server'.waiting = server.waiting
       /\ token \in server'.loading \ server.loading

\* the refresh() awaited by the request presenting `token` returns in this step
ReloadReturns(token) ==
    /\ token_cache.lock = "refresh"
    /\ server.caller = token
    /\ server'.caller # token

\* the step logs the refusal of `token`
Refuses(token) == Refused(token) \in server_log' \ server_log

C35_ReloadOnlyOnStaleMiss ==
    /\ [][\A token \in RequestTokens :
             EntersRefresh(token) =>
                /\ ~token_in_cache(token_cache, token)
                /\ now - token_cache.last_refresh > RefreshInterval]_vars
    /\ [][\A token \in RequestTokens :
             (Refuses(token) /\ ~ReloadReturns(token)) =>
                /\ ~token_in_cache(token_cache, token)
                /\ now - token_cache.last_refresh <= RefreshInterval
                /\ token_cache' = token_cache
                /\ server' = server]_vars
    /\ [][\A token \in RequestTokens :
             ReloadReturns(token) =>
                /\ token_in_cache(token_cache', token) => ~Refuses(token)
                /\ ~token_in_cache(token_cache', token) => Refused(token) \in server_log'
                /\ token \notin server'.loading
                /\ server'.waiting = server.waiting]_vars
    /\ [](Cardinality(server.loading) <= 1)
    /\ [](server.loading # {} => token_cache.lock # None)

\* a request that missed in an outdated cache waits for the lock while the
\* periodic refresh loads, and an earlier miss in a fresh cache was refused
C35_Witness ==
    /\ server.loading = {"periodic"}
    /\ server.waiting = <<"rotated">>
    /\ ~token_in_cache(token_cache, "rotated")
    /\ "rotated" \in DOMAIN auth_tokens
    /\ Refused("unknown") \in server_log


\* ------------------------------------------------------------------------
\* The Extractor applied to one round section: every combination of round
\* phase, bomb and win_team the client can send, for wire rounds 0 and 1.
\* ------------------------------------------------------------------------
RoundPhases == {"freezetime", "live", "over", "unknown"}

BombStates == {None, "planted", "exploded", "defused"}

RoundSections ==
    { Playing("live", wround, 0, 0, phase, win, bomb, Owner, <<>>) :
        wround \in {0, 1}, phase \in RoundPhases, win \in Teams \cup {None},
        bomb \in BombStates }

ExtractInit == InitOf({ Session({payload}, {1}, {Owner}) : payload \in RoundSections })

\* extract_round_state builds the RoundState of the snapshot
extracts_round_state ==
    /\ heap = <<>>
    /\ \E payload \in alphabet : heap' = <<extract_round_state(payload, now)>>
    /\ UNCHANGED <<now, accounts, client, startup, store, manager, procs, tasks, ready, dbq,
                   running, arrivals, log>>

ExtractSpec == ExtractInit /\ [][extracts_round_state]_vars

\* ------------------------------------------------------------------------
\* C36: the Extractor's win_condition is 'bomb_exploded' when round phase is
\* 'over' and bomb is 'exploded', 'bomb_defused' when phase is 'over' and
\* bomb is 'defused', 'elimination' when phase is 'over' with a known winner
\* and any other bomb value, and null in every other case, for every
\* combination of phase, bomb and win_team.
\* ------------------------------------------------------------------------
C36_WinConditionTable ==
    \A payload \in alphabet : \A i \in DOMAIN heap :
        heap[i].win_condition =
            IF payload.rphase = "over" /\ payload.bomb = "exploded" THEN "bomb_exploded"
            ELSE IF payload.rphase = "over" /\ payload.bomb = "defused" THEN "bomb_defused"
            ELSE IF payload.rphase = "over" /\ payload.win # None THEN "elimination"
            ELSE None


\* ------------------------------------------------------------------------
\* C37: after the Extractor processes a snapshot that moves the round phase
\* to 'over' with a known winner W and round number n, round_winner(n - 1)
\* returns W and n - 1 is recorded in the processed rounds; a later round
\* reaching 'over' never changes what round_winner returns for an already
\* completed, different round.
\* ------------------------------------------------------------------------
\* handler t runs process_payload in this step
Extracts(t) ==
    /\ tasks[t].kind = "handle_payload"
    /\ tasks[t].pc = "handle_payload"
    /\ Stepped(t)

\* the snapshot of handler t moves the round phase of its processor to over
\* with a known winner
MovesToOver(t) ==
    LET ex == procs[tasks[t].p].extractor
    IN /\ ex.current_round # 0
       /\ heap[ex.current_round].phase # "over"
       /\ tasks[t].payload.rphase = "over"
       /\ tasks[t].payload.win # None

\* handler t writes round_history in this step: in process_payload or in
\* set_round_state
WritesHistory(t) ==
    /\ tasks[t].kind = "handle_payload"
    /\ tasks[t].pc \in {"handle_payload", "set_round_state"}
    /\ Stepped(t)
    /\ tasks[t].payload.rphase = "over"

C37_RoundWinnerRecorded ==
    /\ [][\A t \in DOMAIN tasks :
             (Extracts(t) /\ MovesToOver(t)) =>
                LET p == tasks[t].p
                    n == AdjustRound(tasks[t].payload.wround)
                IN /\ get_round_winner(procs'[p].extractor, heap', n - 1)
                        = tasks[t].payload.win
                   /\ n - 1 \in procs'[p].extractor.processed_rounds]_vars
    /\ [][\A t \in DOMAIN tasks :
             WritesHistory(t) =>
                LET p == tasks[t].p
                    n == AdjustRound(tasks[t].payload.wround)
                IN \A k \in procs[p].extractor.processed_rounds \ {n - 1} :
                      get_round_winner(procs'[p].extractor, heap', k)
                         = get_round_winner(procs[p].extractor, heap, k)]_vars


\* ------------------------------------------------------------------------
\* C38: once a Round row has a non-null winning_team, no later write
\* (immediate winner update, round completion, match-completion flush)
\* replaces it with a different team: a write that contradicts the stored
\* winner is rejected.
\* ------------------------------------------------------------------------
C38_StoredWinnerKept ==
    [][\A r \in rounds :
          r.winning_team # None =>
              \A q \in rounds' :
                  (q.match_id = r.match_id /\ q.round_number = r.round_number)
                     => q.winning_team = r.winning_team]_vars


\* ------------------------------------------------------------------------
\* C39: every PlayerRoundState and PlayerWeapon row is stored under the
\* round_number that was the processor's current round when its snapshot
\* was received; in particular the match-completion flush over rounds
\* 1..current_round never writes buffered states of the last round under an
\* earlier, unclaimed round number, and never creates a Round row for a
\* round the processor did not observe.
\* ------------------------------------------------------------------------
\* the snapshots of the match of row r, stamped like r, that belong to the
\* round r is stored under
SnapshotsOfRow(r) ==
    { e \in NominalEntries(r.match_id) :
        /\ e.ts = r.state_timestamp
        /\ e.payload.player = r.steam_account
        /\ EntryRound(e) = r.round_number }

\* the rounds the processor of match p observed
ObservedRounds(p) == { EntryRound(e) : e \in NominalEntries(p) }

C39_RowsUnderTheirRound ==
    /\ [](\A r \in prs : SnapshotsOfRow(r) # {})
    /\ [](\A r \in pw : SnapshotsOfRow(r) # {})
    /\ [][\A t \in DOMAIN tasks :
             (tasks[t].kind = "_handle_match_completion" /\ Stepped(t)) =>
                \A r \in rounds' \ rounds :
                    r.round_number \in ObservedRounds(r.match_id)]_vars


\* ------------------------------------------------------------------------
\* C40: when a processor is removed from the Match Manager (is_completed, or
\* idle for more than 600 s), every state still in its
\* player_states_history and weapon_states_history of a registered owner has
\* been written to the store: retirement discards no unpersisted state.
\* ------------------------------------------------------------------------
\* the buffered player state of processor p is a PlayerRoundState row
PlayerStateStored(p, state) ==
    \E r \in prs : /\ r.match_id = p
                   /\ r.steam_account = state.steam_id
                   /\ r.state_timestamp = state.state_timestamp

\* the buffered weapon state of processor p is a PlayerWeapon row
WeaponStateStored(p, state) ==
    \E r \in pw : /\ r.match_id = p
                  /\ r.steam_account = procs[p].owner_steam_id
                  /\ r.state_timestamp = state.state_timestamp

C40_RetirementKeepsStates ==
    [][\A p \in match_processors \ match_processors' :
          procs[p].owner_steam_id \in accounts =>
             /\ \A i \in DOMAIN procs[p].player_states_history :
                   PlayerStateStored(p, procs[p].player_states_history[i])
             /\ \A i \in DOMAIN procs[p].weapon_states_history :
                   \A j \in DOMAIN procs[p].weapon_states_history[i] :
                      WeaponStateStored(p, procs[p].weapon_states_history[i][j])]_vars

====
